---- MODULE Spec2Model ----
(***************************************************************************)
(* DynamicInterpretationManager and its coordination strategies            *)
(* (vscode-elixir-ls, IDE coordinator).  One manager, the language server  *)
(* and the debug adapter it talks to, and the onBreakpointsChanged calls   *)
(* that run on the JavaScript event loop: a call is cut at every request   *)
(* it awaits, and calls interleave at those points.                        *)
(***************************************************************************)
EXTENDS Integers, Sequences, FiniteSets, TLC

\* ------------------------------------------------------------------ bounds

\* Breakpoints in one breakpoint-change batch.
MaxBps == 2
\* onBreakpointsChanged calls submitted in one behaviour.
MaxCalls == 2
\* Analyses handed to mergeDependencies, and modules in one analysis scope.
MaxAnalyses == 2
MaxScopeLen == 2

\* ------------------------------------------------------------- value sets

Modules == {"A", "B"}
NoModule == "none"

StrategyNames == {"demand-driven", "predictive", "learning"}
NoStrategy == "null"

\* A breakpoint: a SourceBreakpoint in a file, or another kind of breakpoint.
Files == {"a.ex", "b.ex", "notes.txt"}
Breakpoints ==
    [source : {TRUE}, file : Files] \cup [source : {FALSE}, file : {""}]

SeqsUpTo(S, n) == UNION {[1..k -> S] : k \in 0..n}

BpLists == SeqsUpTo(Breakpoints, MaxBps)

\* The interpretationScope lists the language server answers with: the
\* subsets of the modules, each listed in a fixed order.
ModuleOrder == <<"A", "B">>
ScopeOf(S) == SelectSeq(ModuleOrder, LAMBDA m : m \in S)
ScopeChoices == {ScopeOf(S) : S \in SUBSET Modules}

CallIds == 1..MaxCalls

SeqToSet(s) == {s[k] : k \in DOMAIN s}

\* ------------------------------------------------------------------ state

VARIABLES
    languageClient,       \* TRUE when a language client is set
    debugAdapter,         \* "none" | "set"
    interpretedModules,   \* Set<string>
    currentStrategy,      \* a strategy name, or NoStrategy after dispose()
    coordinationEnabled,
    initialized,          \* initialize() has been called
    disposed,             \* dispose() has been called
    calls,                \* the onBreakpointsChanged calls, by submission order
    lsScope,              \* the language server's analysis result per module
    adapterLog,           \* coordinatedInterpret requests, in arrival order
    quiet,                \* the last call that ran alone and undisturbed
    lastOp,               \* the initialize / setCoordinationStrategy call
                          \* just made, with its arguments
    session,              \* the debug session the tracker was created for
    registered,           \* coordinationManagers has the session's manager
    pausedIn,             \* modules in which a debuggee process is paused
    userBps,              \* modules in which the user has breakpoint lines
    adapterBps,           \* modules whose breakpoint lines the debugger holds
    mergeIn,              \* the analyses handed to mergeDependencies
    mergeOut,             \* its result
    activeTests,          \* E2EPerformanceMonitor.activeTests, by session
    completing,           \* testRun of the completeE2ETest calls awaiting
                          \* their snapshot, by session
    startedFor,           \* scenarios startE2ETest has registered, by session
    e2eOut,               \* outcome of the monitor's last operation
    edges,                \* the dependency graph: <<caller, callee>> pairs
    graphVersion,         \* the graph's version
    ingests,              \* number of ingests made
    graphOut,             \* result of the graph store's last operation
    adapterInterpreted,   \* modules interpreted in the debug adapter
    adapterQueue,         \* modules the adapter holds for later interpretation
    direct,               \* an executeInterpretation call made by a caller
                          \* of the manager
    twin,                 \* one scenario put to two managers: what the
                          \* first did, for comparison with the second
    pset,                 \* a PredictiveCoordinator.onBreakpointSet call
    changed,              \* the argument of the last shouldReinterpret call
    fwd,                  \* the last breakpoint-change event of the session
    ctl                   \* the E2ETestController: its activeTests, its
                          \* executeE2ETest runs and its showE2EReport command

vars == <<languageClient, debugAdapter, interpretedModules, currentStrategy,
          coordinationEnabled, initialized, disposed, calls, lsScope,
          adapterLog, quiet, lastOp, session, registered, pausedIn, userBps,
          adapterBps, mergeIn, mergeOut, activeTests, completing,
          startedFor, e2eOut, edges, graphVersion, ingests, graphOut,
          adapterInterpreted, adapterQueue, direct, twin, pset, changed,
          fwd, ctl>>

\* The performance monitor and the dependency graph store, apart from the
\* manager.
monitorVars == <<activeTests, completing, startedFor, e2eOut>>
graphVars == <<edges, graphVersion, ingests, graphOut>>
adapterVars == <<adapterInterpreted, adapterQueue, direct>>
driverVars == <<twin, pset, changed, fwd, ctl>>
auxVars == <<monitorVars, graphVars, adapterVars, driverVars>>

mgrVars == <<languageClient, debugAdapter, currentStrategy,
             coordinationEnabled, initialized, disposed>>

\* ---------------------------------------------------------- pure helpers

\* An extraction without the test for .ex: every file is taken to hold a
\* module.
ExtractModuleOfAnyFile(file) ==
    CASE file = "b.ex" -> "B"
      [] OTHER -> "A"

\* extractModuleFromFile / extractModuleFromUri: the file name must end in
\* .ex; its base name is converted from snake_case to PascalCase.
ExtractModuleFromFile(file) ==
    CASE file = "a.ex" -> "A"
      [] file = "b.ex" -> "B"
      [] OTHER -> NoModule

\* The module a strategy works on for a breakpoint: only a SourceBreakpoint
\* has a location.
BreakpointModule(bp) ==
    IF bp.source THEN ExtractModuleFromFile(bp.file) ELSE NoModule

\* planInterpretationScope: one analysis request per source breakpoint with
\* a module, in breakpoint order (the indices of those breakpoints).
RECURSIVE PlanFrom(_, _)
PlanFrom(bps, j) ==
    IF j > Len(bps) THEN <<>>
    ELSE (IF BreakpointModule(bps[j]) # NoModule THEN <<j>> ELSE <<>>)
         \o PlanFrom(bps, j + 1)

PlanInterpretationScope(bps) == PlanFrom(bps, 1)

\* new Set(...) filled in iteration order: first occurrences, in order.
RECURSIVE Distinct(_, _)
Distinct(s, acc) ==
    IF s = <<>> THEN acc
    ELSE Distinct(Tail(s),
                  IF Head(s) \in SeqToSet(acc) THEN acc
                  ELSE Append(acc, Head(s)))

RECURSIVE Flatten(_)
Flatten(ss) == IF ss = <<>> THEN <<>> ELSE Head(ss) \o Flatten(Tail(ss))

\* A filter that keeps every module.
KeepsEveryModule(m) == TRUE

NotInterpreted(m) == m \notin interpretedModules

\* mergeDependencies: the union of the scopes, minus the interpreted set.
MergeDependencies(analyses) ==
    SelectSeq(Distinct(Flatten(analyses), <<>>), NotInterpreted)

\* getInterpretationStatus: a snapshot of the manager's state.
\* A snapshot whose count is the number of interpret requests sent.
StatusCountingRequests ==
    [interpretedCount |-> Len(adapterLog),
     interpretedModules |-> ScopeOf(interpretedModules),
     coordinationEnabled |-> coordinationEnabled,
     currentStrategy |-> IF currentStrategy = NoStrategy THEN "none"
                         ELSE currentStrategy]

GetInterpretationStatus ==
    [interpretedCount |-> Cardinality(interpretedModules),
     interpretedModules |-> ScopeOf(interpretedModules),
     coordinationEnabled |-> coordinationEnabled,
     currentStrategy |-> IF currentStrategy = NoStrategy THEN "none"
                         ELSE currentStrategy]

\* ------------------------------------------------------------ call records

NoQuiet == [valid |-> FALSE, bps |-> <<>>, strat |-> NoStrategy]
UnknownScope == [known |-> FALSE, ok |-> FALSE, scope |-> <<>>]
NoResp == [kind |-> "none", interpreted |-> {}, failed |-> {}]
NoOp == [op |-> "none", name |-> "", enabled |-> FALSE]
NoSession == [state |-> "none", enabled |-> FALSE]
NoMerge == <<NoModule>>

\* A call of onBreakpointsChanged.  While it runs the record holds where it
\* is (pc, i, pending, got, req, resp) and what it has done so far; once it
\* is done the record keeps the outcome only.
IdleCall ==
    [pc |-> "idle", bps |-> <<>>, strat |-> NoStrategy, i |-> 0,
     pending |-> {}, got |-> <<>>, req |-> <<>>, resp |-> NoResp,
     \* while it runs
     obs |-> {},            \* status snapshots read while it was in flight
     handled |-> {},        \* breakpoints whose processing was carried out
     failedIdx |-> {},      \* breakpoints whose analysis/interpretation threw
     failedUnits |-> {},    \* modules whose analysis or interpretation failed
     solo |-> FALSE,        \* nothing else has happened since it started
     \* kept when done
     added |-> {},          \* modules it put into the interpreted set
     sent |-> 0,            \* coordinatedInterpret requests it sent
     disabledAtStart |-> FALSE,
     rep |-> FALSE,         \* it repeats the call before it, undisturbed
     settled |-> FALSE,     \* ... and nothing of that call was left undone
     torn |-> FALSE,        \* some snapshot held part of what it added
     aborted |-> FALSE,     \* one breakpoint failed, others were left out
     swallowed |-> FALSE,   \* a unit failed and the result does not say so
     uninstalled |-> FALSE, \* interpretation succeeded, breakpoints not set
     caught |-> FALSE,      \* the catch block of onBreakpointsChanged ran
     ret |-> "pending"]     \* "resolved" | "rejected"

InFlight(c) == calls[c].pc \notin {"idle", "done"}

NoneInFlight == \A c \in CallIds : ~InFlight(c)

\* Something else happened to the manager or the graph while calls ran:
\* they are no longer "in sequence".
Disturbed(cs) ==
    [c \in CallIds |->
        IF cs[c].pc \notin {"idle", "done"}
        THEN [cs[c] EXCEPT !.solo = FALSE, !.rep = FALSE]
        ELSE cs[c]]

\* ---------------------------------------------------- performance monitor

\* Session ids, and scenario names given to startE2ETest.
Sessions == {"s1", "s2"}
ScenarioArgs == {"user_workflow_simple", "business_logic_complex",
                 "no_such_scenario"}

\* registerTestScenarios: scenario key |-> E2ETestScenario.name.
TestScenarios ==
    [k \in {"user_workflow_simple", "business_logic_complex",
            "ecommerce_full_workflow", "stress_test_coordination"} |->
        CASE k = "user_workflow_simple" -> "Simple User Workflow"
          [] k = "business_logic_complex" -> "Complex Business Logic"
          [] k = "ecommerce_full_workflow" -> "Full E-commerce Workflow"
          [] k = "stress_test_coordination" -> "Coordination Stress Test"]

NoTest == "none"
NoE2E == [op |-> "none", session |-> "", scenario |-> "", result |-> "",
          name |-> ""]

NoGraphOut == [kind |-> "none", target |-> "", depth |-> 0, units |-> {},
               errors |-> {}, version |-> 0]

NoDirect == [pc |-> "idle", modules |-> {}, strategy |-> "",
             resp |-> NoResp]

NoTwin == [phase |-> "none", bps |-> <<>>, interpreted0 |-> {},
           trace |-> <<>>, answers |-> <<>>, interpreted |-> {},
           caught |-> FALSE, trace2 |-> <<>>, replayed |-> 0]

NoEvent == [seen |-> FALSE, added |-> <<>>, removed |-> <<>>,
            changed |-> <<>>, call |-> 0]

NoRun == [pc |-> "idle", workflow |-> "none", result |-> "none"]
NoCtl == [active |-> {}, run |-> [s \in Sessions |-> NoRun],
          show |-> [pc |-> "idle", test |-> ""]]

NoSet == [pc |-> "idle", module |-> NoModule, scope |-> <<>>,
          level1 |-> <<>>, immediate |-> "none", background |-> <<>>]

\* The monitor as its constructor leaves it; an empty graph at version 0;
\* a debug adapter that has interpreted nothing.
AuxInit ==
    /\ twin = NoTwin
    /\ pset = NoSet
    /\ changed = <<>>
    /\ fwd = NoEvent
    /\ ctl = NoCtl
    /\ adapterInterpreted = {}
    /\ adapterQueue = {}
    /\ direct = NoDirect
    /\ edges = {}
    /\ graphVersion = 0
    /\ ingests = 0
    /\ graphOut = NoGraphOut
    /\ activeTests = [s \in Sessions |-> NoTest]
    /\ completing = [s \in Sessions |-> <<>>]
    /\ startedFor = [s \in Sessions |-> {}]
    /\ e2eOut = NoE2E

\* ------------------------------------------------------------------- Init

Init ==
    /\ languageClient = FALSE
    /\ debugAdapter = "none"
    /\ interpretedModules = {}
    /\ currentStrategy = "demand-driven"
    /\ coordinationEnabled = FALSE
    /\ initialized = FALSE
    /\ disposed = FALSE
    /\ calls = [c \in CallIds |-> IdleCall]
    /\ lsScope = [m \in Modules |-> UnknownScope]
    /\ adapterLog = <<>>
    /\ quiet = NoQuiet
    /\ lastOp = NoOp
    /\ session = NoSession
    /\ registered = FALSE
    /\ pausedIn = {}
    /\ userBps = {}
    /\ adapterBps = {}
    /\ mergeIn = <<>>
    /\ mergeOut = NoMerge
    /\ AuxInit

\* ------------------------------------------------------ manager operations

\* setCoordinationStrategy: an unknown name falls back to demand-driven.
\* A switch without its default branch.
StrategyNamed(name) == name

StrategyFor(name) ==
    IF name \in StrategyNames THEN name ELSE "demand-driven"

\* initialize(languageClient, debugAdapter, config).  The fields are set
\* first; a missing debug adapter makes `debugAdapter.id` throw before the
\* strategy is set.  A failing setCoordinationMode request is swallowed.
Initialize(lc, da, enabled, name) ==
    /\ ~initialized
    /\ ~disposed
    /\ initialized' = TRUE
    /\ languageClient' = lc
    /\ debugAdapter' = da
    /\ coordinationEnabled' = enabled
    /\ currentStrategy' = IF da = "set" /\ enabled THEN StrategyFor(name)
                          ELSE currentStrategy
    /\ calls' = Disturbed(calls)
    /\ quiet' = NoQuiet
    /\ UNCHANGED <<interpretedModules, disposed, lsScope, adapterLog>>

SetCoordinationStrategy(name) ==
    /\ currentStrategy' = StrategyFor(name)
    /\ calls' = Disturbed(calls)
    /\ quiet' = NoQuiet
    /\ UNCHANGED <<languageClient, debugAdapter, interpretedModules,
                   coordinationEnabled, initialized, disposed, lsScope,
                   adapterLog>>

\* A manager that reinterprets on any change, whatever its strategy.
ReinterpretOnAnyChange(changedFiles) == Len(changedFiles) > 0

\* shouldReinterpret(changedFiles): false without strategy; demand-driven
\* asks whether a changed file holds an interpreted module, predictive
\* whether any file changed, learning answers false.
ShouldReinterpret(changedFiles) ==
    CASE currentStrategy = NoStrategy -> FALSE
      [] currentStrategy = "demand-driven" ->
            \E k \in DOMAIN changedFiles :
                /\ ExtractModuleFromFile(changedFiles[k]) # NoModule
                /\ ExtractModuleFromFile(changedFiles[k])
                        \in SeqToSet(GetInterpretationStatus.interpretedModules)
      [] currentStrategy = "predictive" -> Len(changedFiles) > 0
      [] OTHER -> FALSE

\* A dispose that empties the interpreted set.
DisposeClearsModules ==
    /\ ~disposed
    /\ disposed' = TRUE
    /\ currentStrategy' = NoStrategy
    /\ coordinationEnabled' = FALSE
    /\ interpretedModules' = {}
    /\ calls' = Disturbed(calls)
    /\ quiet' = NoQuiet
    /\ UNCHANGED <<languageClient, debugAdapter, initialized, lsScope,
                   adapterLog>>

Dispose ==
    /\ ~disposed
    /\ disposed' = TRUE
    /\ currentStrategy' = NoStrategy
    /\ coordinationEnabled' = FALSE
    /\ calls' = Disturbed(calls)
    /\ quiet' = NoQuiet
    /\ UNCHANGED <<languageClient, debugAdapter, interpretedModules,
                   initialized, lsScope, adapterLog>>

\* A caller reads getInterpretationStatus() while calls are in flight; each
\* call in flight notes which of the modules it has added the snapshot holds.
ObserveStatus ==
    /\ \E c \in CallIds : InFlight(c)
    /\ calls' = [c \in CallIds |->
                    IF InFlight(c)
                    THEN [calls[c] EXCEPT !.obs = @ \cup
                            {SeqToSet(GetInterpretationStatus
                                            .interpretedModules)
                                \cap calls[c].added}]
                    ELSE calls[c]]
    /\ calls' # calls
    /\ UNCHANGED <<mgrVars, interpretedModules, lsScope, adapterLog, quiet>>

\* The dependency graph behind the language server changes for module m,
\* between two breakpoint-change events.
GraphChange(m) ==
    /\ lsScope[m].known
    /\ NoneInFlight
    /\ lsScope' = [lsScope EXCEPT ![m] = UnknownScope]
    /\ calls' = Disturbed(calls)
    /\ quiet' = NoQuiet
    /\ UNCHANGED <<mgrVars, interpretedModules, adapterLog>>

\* ------------------------------------------- onBreakpointsChanged: the calls

\* A guard that lets every call through.
GuardAlwaysPasses == TRUE

\* The guard of onBreakpointsChanged.
CoordinationActive == coordinationEnabled /\ currentStrategy # NoStrategy

\* A catch block that rethrows.
OnBreakpointsChangedRethrow == "rejected"

\* What the catch block of onBreakpointsChanged does with the error: it logs
\* it and records a metric, and the promise resolves.
OnBreakpointsChangedCatch == "resolved"

\* The value the call gives to its caller: Promise<void>, no unit is named.
CoordinationResult(r) == {}

\* A learning strategy with a behaviour of its own.
DemandDrivenByName(strat) == strat = "demand-driven"

\* LearningCoordinator delegates to a DemandDrivenCoordinator.
IsDemandDriven(strat) == strat \in {"demand-driven", "learning"}

\* A demand-driven strategy that analyses every breakpoint's module.
DdAlwaysAnalyse(m, interpreted) == TRUE

\* DemandDrivenCoordinator.onBreakpointSet: "only analyze if not already
\* interpreted".
DdNeedsAnalysis(m, interpreted) == m \notin interpreted

\* The breakpoints of a call that were neither processed nor failed.
Unhandled(r) == DOMAIN r.bps \ (r.handled \cup r.failedIdx)

BatchAborted(r) == r.failedIdx # {} /\ Unhandled(r) # {}

Swallowed(r) == r.failedUnits \ CoordinationResult(r) # {}

\* The breakpoints a call asks the debug adapter to install: the strategies
\* send coordinatedInterpret and nothing else.
InstalledBreakpoints(r) == {}

\* Every coordinatedInterpret request of the call was answered without a
\* failed module, and some requested breakpoint was not installed.
Uninstalled(r) ==
    /\ r.pc = "return" /\ r.sent > 0 /\ r.failedUnits = {}
    /\ DOMAIN r.bps \ InstalledBreakpoints(r) # {}

\* A snapshot that holds some, but not all, of what the call added.
TornBy(r, o) == o # {} /\ o # r.added

\* The for-loop of DemandDrivenCoordinator.onBreakpointsChanged from
\* breakpoint i on, up to the next request it awaits ("dd_analysis"), its
\* end ("return") or an exception ("throw").
RECURSIVE DdLoop(_, _, _)
DdLoop(r, i, interpreted) ==
    IF i > Len(r.bps) THEN [r EXCEPT !.pc = "return", !.i = i]
    ELSE LET m == BreakpointModule(r.bps[i]) IN
         IF m = NoModule \/ ~DdNeedsAnalysis(m, interpreted)
         THEN DdLoop([r EXCEPT !.handled = @ \cup {i}], i + 1, interpreted)
         ELSE IF ~languageClient
         THEN [r EXCEPT !.pc = "throw", !.i = i,
                        !.failedIdx = @ \cup {i},
                        !.failedUnits = @ \cup {m}]
         ELSE [r EXCEPT !.pc = "dd_analysis", !.i = i]

PlanModules(r) ==
    {BreakpointModule(r.bps[k]) : k \in SeqToSet(PlanInterpretationScope(r.bps))}

\* PredictiveCoordinator.onBreakpointsChanged up to Promise.all: every
\* analysis request of the plan is issued before the first one is awaited.
PrBegin(r) ==
    LET plan == SeqToSet(PlanInterpretationScope(r.bps)) IN
    IF plan = {}
    THEN [r EXCEPT !.pc = "return", !.handled = DOMAIN r.bps]
    ELSE IF ~languageClient
    THEN [r EXCEPT !.pc = "throw", !.failedIdx = plan,
                   !.failedUnits = PlanModules(r)]
    ELSE [r EXCEPT !.pc = "pr_analysis", !.pending = plan,
                   !.got = [j \in DOMAIN r.bps |-> <<>>],
                   !.handled = DOMAIN r.bps \ plan]

\* executeInterpretation up to the request it awaits: it throws when no
\* debug adapter is set, otherwise the request goes out.
ExecuteInterpretation(r, modules, idxs, pcSent) ==
    IF debugAdapter = "none"
    THEN [r EXCEPT !.pc = "throw", !.failedIdx = @ \cup idxs,
                   !.failedUnits = @ \cup SeqToSet(modules)]
    ELSE [r EXCEPT !.pc = pcSent, !.req = modules, !.sent = @ + 1]

\* The request as the debug adapter receives it.
LogEntry(c, r) ==
    [call |-> c,
     modules |-> r.req,
     targets |-> IF IsDemandDriven(r.strat)
                 THEN {BreakpointModule(r.bps[r.i])}
                 ELSE PlanModules(r),
     already |-> SeqToSet(r.req) \cap interpretedModules,
     paused |-> SeqToSet(r.req) \cap pausedIn]

\* The record of a call whose promise has settled.
FinishRec(r) ==
    \* an exception of the strategy, or of reading currentStrategy.name
    \* after dispose(), lands in the catch block
    LET caught == \/ r.pc = "throw"
                  \/ r.pc = "return" /\ currentStrategy = NoStrategy IN
    [IdleCall EXCEPT
        !.pc = "done",
        !.added = r.added,
        !.sent = r.sent,
        !.disabledAtStart = r.disabledAtStart,
        !.rep = r.rep,
        !.settled = r.settled,
        !.torn = \E o \in r.obs : TornBy(r, o),
        !.aborted = BatchAborted(r),
        !.swallowed = Swallowed(r),
        !.uninstalled = Uninstalled(r),
        !.caught = caught,
        !.ret = IF caught THEN OnBreakpointsChangedCatch ELSE "resolved"]

\* A call that never settles after an exception of its strategy.
ReturnedUnlessThrown(r) == r.pc \in {"skip", "return"}

Returned(r) == r.pc \in {"skip", "return", "throw"}

\* Call c continues as r (r0 before the step; cs the other calls; q the
\* value of quiet if c goes on).
Settle(c, cs, r0, r, q) ==
    /\ calls' = [cs EXCEPT ![c] = IF Returned(r) THEN FinishRec(r) ELSE r]
    /\ quiet' = IF ~Returned(r) THEN q
                ELSE IF r.solo
                THEN [valid |-> TRUE, bps |-> r.bps, strat |-> r.strat]
                ELSE NoQuiet
    /\ adapterLog' =
         IF r.sent > r0.sent THEN Append(adapterLog, LogEntry(c, r))
         ELSE IF Returned(r) /\ \A d \in CallIds \ {c} : ~InFlight(d)
         THEN <<>>
         ELSE adapterLog

\* Every module of the breakpoints and of the analysis scopes known for
\* them is in the interpreted set.
Settled(bps) ==
    \A k \in DOMAIN bps :
        LET m == BreakpointModule(bps[k]) IN
        m # NoModule =>
            /\ m \in interpretedModules
            /\ (lsScope[m].known /\ lsScope[m].ok) =>
                  SeqToSet(lsScope[m].scope) \subseteq interpretedModules

\* onBreakpointsChanged(bps) is called: the guard, then the strategy up to
\* the first request it awaits.
Start(c, bps) ==
    /\ calls[c].pc = "idle"
    /\ \A d \in CallIds : d < c => calls[d].pc # "idle"
    /\ LET rep == /\ NoneInFlight /\ quiet.valid
                  /\ quiet.bps = bps /\ quiet.strat = currentStrategy
           r0 == [IdleCall EXCEPT
                    !.bps = bps, !.strat = currentStrategy,
                    !.solo = NoneInFlight,
                    !.rep = rep,
                    !.settled = rep /\ Settled(bps),
                    !.disabledAtStart =
                        ~coordinationEnabled \/ currentStrategy = NoStrategy]
           r == IF ~CoordinationActive
                THEN [r0 EXCEPT !.pc = "skip", !.solo = FALSE]
                ELSE IF IsDemandDriven(r0.strat)
                THEN DdLoop(r0, 1, interpretedModules)
                ELSE PrBegin(r0)
       IN Settle(c, Disturbed(calls), r0, r, NoQuiet)
    /\ UNCHANGED <<mgrVars, interpretedModules, lsScope>>

\* ------------------------------------------------ requests and responses

\* The language server's answer for module m: an error, or an
\* interpretationScope.  The answer stays the same until the graph changes.
LsAnswers(m) ==
    IF lsScope[m].known THEN {lsScope[m]}
    ELSE {[known |-> TRUE, ok |-> FALSE, scope |-> <<>>]}
         \cup {[known |-> TRUE, ok |-> TRUE, scope |-> sc] : sc \in ScopeChoices}

\* The debug adapter's answers to a coordinatedInterpret request: it throws,
\* or it lists each requested module as interpreted or as failed.
AdapterAnswers(modules) ==
    {[kind |-> "threw", interpreted |-> {}, failed |-> {}]}
    \cup {[kind |-> "ok", interpreted |-> ok,
           failed |-> SeqToSet(modules) \ ok] : ok \in SUBSET SeqToSet(modules)}

\* Tracking that takes every module the response names, failed or not.
TrackedNamed(response) == response.interpreted \cup response.failed

\* executeInterpretation, "update our tracking": the modules it adds to
\* interpretedModules for a response.
TrackedModules(response) == response.interpreted

\* DemandDrivenCoordinator.onBreakpointSet after the analysis response for
\* breakpoint i, and the loop up to the next request.
DdAnalysisResponse(c) ==
    /\ calls[c].pc = "dd_analysis"
    /\ LET r0 == calls[c]
           m == BreakpointModule(r0.bps[r0.i])
       IN \E a \in LsAnswers(m) :
            /\ lsScope' = [lsScope EXCEPT ![m] = a]
            /\ LET r == IF ~a.ok
                        THEN [r0 EXCEPT !.pc = "throw",
                                        !.failedIdx = @ \cup {r0.i},
                                        !.failedUnits = @ \cup {m}]
                        ELSE IF Len(a.scope) > 0
                        THEN ExecuteInterpretation(r0, a.scope, {r0.i},
                                                   "dd_interp")
                        ELSE DdLoop([r0 EXCEPT !.handled = @ \cup {r0.i}],
                                    r0.i + 1, interpretedModules)
               IN Settle(c, calls, r0, r, quiet)
    /\ UNCHANGED <<mgrVars, interpretedModules, adapterBps>>

\* One analysis response of PredictiveCoordinator.onBreakpointsChanged.  A
\* failure rejects Promise.all at once; the last response leads to
\* mergeDependencies and executeInterpretation.
PrAnalysisResponse(c, k) ==
    /\ calls[c].pc = "pr_analysis"
    /\ k \in calls[c].pending
    /\ LET r0 == calls[c]
           m == BreakpointModule(r0.bps[k])
       IN \E a \in LsAnswers(m), plan \in {PlanInterpretationScope(r0.bps)} :
            /\ lsScope' = [lsScope EXCEPT ![m] = a]
            /\ LET got == [j \in DOMAIN r0.bps |->
                              IF j = k THEN a.scope ELSE r0.got[j]]
                   analyses == [j \in DOMAIN plan |-> got[plan[j]]]
                   r1 == [r0 EXCEPT !.pending = @ \ {k}, !.got = got]
               IN \E merged \in {MergeDependencies(analyses)} :
                  \E r \in {IF ~a.ok
                        THEN [r0 EXCEPT !.pc = "throw",
                                        !.failedIdx = @ \cup {k},
                                        !.failedUnits = @ \cup {m}]
                        ELSE IF r1.pending # {} THEN r1
                        ELSE IF Len(merged) > 0
                        THEN ExecuteInterpretation(
                                 r1, merged,
                                 SeqToSet(plan), "pr_interp")
                        ELSE [r1 EXCEPT !.pc = "return",
                                        !.handled = DOMAIN r0.bps]} :
                     Settle(c, calls, r0, r, quiet)
    /\ UNCHANGED <<mgrVars, interpretedModules, adapterBps>>

\* Interpreting a module (again) removes all breakpoints the debugger holds
\* for it.
ReinterpretClears(held, interpreted) == held \ interpreted

\* The debug adapter answers the coordinatedInterpret request of call c.
AdapterResponds(c) ==
    /\ calls[c].pc \in {"dd_interp", "pr_interp"}
    /\ \E a \in AdapterAnswers(calls[c].req) :
         /\ calls' = [calls EXCEPT ![c].resp = a,
                                   ![c].pc = IF @ = "dd_interp" THEN "dd_resp"
                                             ELSE "pr_resp"]
         /\ adapterBps' = ReinterpretClears(adapterBps, a.interpreted)
    /\ UNCHANGED <<mgrVars, interpretedModules, lsScope, adapterLog, quiet>>

\* An executeInterpretation that sends its request again.
ExecuteInterpretationRetries(c) ==
    /\ calls[c].pc \in {"dd_resp", "pr_resp"}
    /\ calls' = [calls EXCEPT
                    ![c].pc = IF @ = "dd_resp" THEN "dd_interp"
                              ELSE "pr_interp",
                    ![c].resp = NoResp,
                    ![c].sent = @ + 1]
    /\ UNCHANGED <<mgrVars, interpretedModules, lsScope, adapterLog, quiet,
                   adapterBps>>

\* executeInterpretation after its await, and the strategy up to its next
\* request.
ExecuteInterpretationReturns(c) ==
    /\ calls[c].pc \in {"dd_resp", "pr_resp"}
    /\ LET r0 == calls[c]
           a == r0.resp
           idxs == IF r0.pc = "dd_resp" THEN {r0.i}
                   ELSE SeqToSet(PlanInterpretationScope(r0.bps))
           new == IF a.kind = "ok" THEN TrackedModules(a) ELSE {}
           r1 == [r0 EXCEPT !.resp = NoResp, !.req = <<>>,
                            !.added = @ \cup (new \ interpretedModules),
                            !.failedUnits = @ \cup a.failed]
           r == IF a.kind # "ok"
                THEN [r1 EXCEPT !.pc = "throw",
                                !.failedIdx = @ \cup idxs,
                                !.failedUnits = @ \cup SeqToSet(r0.req)]
                ELSE IF r0.pc = "dd_resp"
                THEN DdLoop([r1 EXCEPT !.handled = @ \cup idxs], r0.i + 1,
                            interpretedModules \cup new)
                ELSE [r1 EXCEPT !.pc = "return", !.handled = DOMAIN r0.bps]
       IN /\ interpretedModules' = interpretedModules \cup new
          /\ Settle(c, calls, r0, r, quiet)
    /\ UNCHANGED <<mgrVars, lsScope, adapterBps>>

\* elixirLS.debugCoordination.maxConcurrentAnalysis, as documented.  No
\* code reads the setting.
MaxConcurrentAnalysis == 3

\* The requests a call has sent and not yet got an answer to.
Outstanding(r) ==
    CASE r.pc = "pr_analysis" -> Cardinality(r.pending)
      [] r.pc \in {"dd_analysis", "dd_interp", "pr_interp"} -> 1
      [] OTHER -> 0

RECURSIVE SumOutstanding(_)
SumOutstanding(c) ==
    IF c = 0 THEN 0 ELSE Outstanding(calls[c]) + SumOutstanding(c - 1)

RequestsInFlight == SumOutstanding(MaxCalls)

\* ------------------------------------------------------------ specifications

CallStep ==
    \E c \in CallIds :
        \/ DdAnalysisResponse(c)
        \/ \E k \in 1..MaxBps : PrAnalysisResponse(c, k)
        \/ AdapterResponds(c)
        \/ ExecuteInterpretationReturns(c)

Configure ==
    \/ \E lc \in BOOLEAN, da \in {"none", "set"}, enabled \in BOOLEAN,
          name \in StrategyNames \cup {"other"} :
            Initialize(lc, da, enabled, name)
    \/ Dispose

\* Breakpoint-change events arrive one after the other has been handled.
\* What the manager's own operations never touch.
envVars == <<lastOp, session, registered, pausedIn, userBps, mergeIn, mergeOut, auxVars>>

\* The manager used directly, as the tests do.
Next ==
    \/ Configure /\ UNCHANGED <<adapterBps, envVars>>
    \/ /\ \E name \in StrategyNames \cup {"other"} :
             SetCoordinationStrategy(name)
       /\ UNCHANGED <<adapterBps, envVars>>
    \/ ObserveStatus /\ UNCHANGED <<adapterBps, envVars>>
    \/ /\ \E m \in Modules : GraphChange(m)
       /\ UNCHANGED <<adapterBps, envVars>>
    \/ /\ \E c \in CallIds, bps \in BpLists : NoneInFlight /\ Start(c, bps)
       /\ UNCHANGED <<adapterBps, envVars>>
    \/ CallStep /\ UNCHANGED envVars

Spec == Init /\ [][Next]_vars

\* ------------------------------------------------- the debug session's tracker

\* A stop that leaves the manager in coordinationManagers.
StopKeepsManager(reg) == reg

\* onWillStopSession / dispose: coordinationManagers.delete(session.id),
\* coordinationManagers.clear().
AfterStop(reg) == FALSE

\* A tracker that initializes the manager whether or not it has found a
\* language client.
StartInitializesWithoutClient(enabled, name, client) ==
    /\ session.state = "none"
    /\ session' = [state |-> "started", enabled |-> enabled]
    /\ registered' = enabled
    /\ IF enabled
       THEN Initialize(client, "set", enabled, name)
       ELSE UNCHANGED <<mgrVars, interpretedModules, calls, lsScope,
                        adapterLog, quiet>>
    /\ UNCHANGED <<lastOp, pausedIn, userBps, adapterBps, mergeIn, mergeOut, auxVars>>

\* onWillStartSession: a manager is created and registered when the
\* session's configuration has coordination.enabled; it is initialized with
\* the session as debug adapter when a language client is found.
OnWillStartSession(enabled, name, client) ==
    /\ session.state = "none"
    /\ session' = [state |-> "started", enabled |-> enabled]
    /\ registered' = enabled
    /\ IF enabled /\ client
       THEN Initialize(TRUE, "set", enabled, name)
       ELSE UNCHANGED <<mgrVars, interpretedModules, calls, lsScope,
                        adapterLog, quiet>>
    /\ UNCHANGED <<lastOp, pausedIn, userBps, adapterBps, mergeIn, mergeOut, auxVars>>

\* onWillStopSession: the session's manager, if any, is disposed and removed.
OnWillStopSession ==
    /\ session.state = "started"
    /\ session' = [session EXCEPT !.state = "stopped"]
    /\ registered' = (registered /\ AfterStop(registered))
    /\ IF registered
       THEN Dispose
       ELSE UNCHANGED <<mgrVars, interpretedModules, calls, lsScope,
                        adapterLog, quiet>>
    /\ UNCHANGED <<lastOp, pausedIn, userBps, adapterBps, mergeIn, mergeOut, auxVars>>

\* DebugAdapterTrackerFactory.dispose: every manager is disposed, the map
\* is cleared.
FactoryDispose ==
    /\ registered
    /\ registered' = (registered /\ AfterStop(registered))
    /\ Dispose
    /\ UNCHANGED <<session, lastOp, pausedIn, userBps, adapterBps, mergeIn,
                   mergeOut, auxVars>>

\* onDidChangeBreakpoints: the event reaches the session's manager, if one
\* is registered (events one after the other has been handled).
OnDidChangeBreakpoints(c, bps) ==
    /\ registered /\ NoneInFlight
    /\ Start(c, bps)
    /\ UNCHANGED <<envVars, adapterBps>>

\* ------------------------------------------------------------ the debuggee

\* A debuggee process stops inside module m / goes on.
Pause(m) ==
    /\ session.state = "started"
    /\ pausedIn = {}
    /\ pausedIn' = {m}
    /\ UNCHANGED <<mgrVars, interpretedModules, calls, lsScope, adapterLog,
                   quiet, lastOp, session, registered, userBps, adapterBps,
                   mergeIn, mergeOut, auxVars>>

Resume ==
    /\ pausedIn # {}
    /\ pausedIn' = {}
    /\ UNCHANGED <<mgrVars, interpretedModules, calls, lsScope, adapterLog,
                   quiet, lastOp, session, registered, userBps, adapterBps,
                   mergeIn, mergeOut, auxVars>>

\* The user's breakpoint lines in interpreted module m are installed in the
\* debugger.
BreakpointsSet(m) ==
    /\ session.state = "started"
    /\ m \in interpretedModules
    /\ m \notin userBps
    /\ userBps' = userBps \cup {m}
    /\ adapterBps' = adapterBps \cup {m}
    /\ UNCHANGED <<mgrVars, interpretedModules, calls, lsScope, adapterLog,
                   quiet, lastOp, session, registered, pausedIn, mergeIn,
                   mergeOut, auxVars>>

\* The manager of a debug session, as the tracker drives it.
NextSession ==
    \/ \E enabled, client \in BOOLEAN, name \in StrategyNames \cup {"other"} :
          OnWillStartSession(enabled, name, client)
    \/ OnWillStopSession
    \/ FactoryDispose
    \/ \E c \in CallIds, bps \in BpLists : OnDidChangeBreakpoints(c, bps)
    \/ CallStep /\ UNCHANGED envVars
    \/ \E m \in Modules : Pause(m)
    \/ Resume
    \/ \E m \in Modules : BreakpointsSet(m)

\* The continuation of a call runs once the response it awaits has arrived;
\* nothing makes the language server or the debug adapter answer.
SpecSession ==
    /\ Init
    /\ [][NextSession]_vars
    /\ WF_vars(\E c \in CallIds : ExecuteInterpretationReturns(c)
                                    /\ UNCHANGED envVars)

\* ------------------------------------------- the manager being configured

otherVars == <<adapterBps, session, registered, pausedIn, userBps, mergeIn,
               mergeOut, auxVars>>

\* The manager's configuration calls, the last one of them remembered, with
\* breakpoint events handled one after the other in between.
NextConfig ==
    \/ \E lc \in BOOLEAN, da \in {"none", "set"}, enabled \in BOOLEAN,
          name \in StrategyNames \cup {"other"} :
            /\ Initialize(lc, da, enabled, name)
            /\ lastOp' = [op |-> "initialize", name |-> name,
                          enabled |-> enabled]
            /\ UNCHANGED otherVars
    \/ \E name \in StrategyNames \cup {"other"} :
            /\ SetCoordinationStrategy(name)
            /\ lastOp' = [op |-> "setCoordinationStrategy", name |-> name,
                          enabled |-> FALSE]
            /\ UNCHANGED otherVars
    \/ /\ Dispose
       /\ lastOp' = [op |-> "dispose", name |-> "", enabled |-> FALSE]
       /\ UNCHANGED otherVars
    \/ \E changedFiles \in SeqsUpTo(Files, 1) :
            /\ lastOp' = [op |-> "shouldReinterpret", name |-> "",
                          enabled |-> ShouldReinterpret(changedFiles)]
            /\ UNCHANGED <<mgrVars, interpretedModules, calls, lsScope,
                           adapterLog, quiet, otherVars>>
    \/ /\ NoneInFlight
       /\ \E c \in CallIds, bps \in BpLists : Start(c, bps)
       /\ UNCHANGED <<adapterBps, envVars>>
    \/ CallStep /\ UNCHANGED envVars

SpecConfig == Init /\ [][NextConfig]_vars

\* ------------------------------------------ the performance monitor in use

\* completeE2ETest calls of one session that await their snapshot at once.
MaxCompleting == 2

managerVars == <<mgrVars, interpretedModules, calls, lsScope, adapterLog,
                 quiet, lastOp, session, registered, pausedIn, userBps,
                 adapterBps, mergeIn, mergeOut>>

\* A completion that leaves the test run in activeTests.
KeepsActiveTest(tests, s) == tests

\* this.activeTests.delete(sessionId)
AfterComplete(tests, s) == [tests EXCEPT ![s] = NoTest]

\* startE2ETest(scenarioName, sessionId): throws for an unknown scenario,
\* else registers the test run (the snapshot it then awaits is not part of
\* activeTests).
StartE2ETest(k, s) ==
    /\ IF k \notin DOMAIN TestScenarios
       THEN /\ e2eOut' = [op |-> "start", session |-> s, scenario |-> k,
                          result |-> "error", name |-> ""]
            /\ UNCHANGED <<activeTests, startedFor>>
       ELSE /\ activeTests' = [activeTests EXCEPT ![s] = k]
            /\ startedFor' = [startedFor EXCEPT ![s] = @ \cup {k}]
            /\ e2eOut' = [op |-> "start", session |-> s, scenario |-> k,
                          result |-> "ok", name |-> ""]
    /\ UNCHANGED <<completing, managerVars, driverVars, graphVars, adapterVars>>

\* completeE2ETest(sessionId) up to `await takePerformanceSnapshot`: throws
\* when the session has no test run, else holds the run it has read.
CompleteE2ETest(s) ==
    /\ Len(completing[s]) < MaxCompleting
    /\ IF activeTests[s] = NoTest
       THEN /\ e2eOut' = [op |-> "complete", session |-> s, scenario |-> "",
                          result |-> "error", name |-> ""]
            /\ UNCHANGED completing
       ELSE /\ completing' = [completing EXCEPT
                                ![s] = Append(@, activeTests[s])]
            /\ e2eOut' = [op |-> "completeCall", session |-> s,
                          scenario |-> "", result |-> "pending", name |-> ""]
    /\ UNCHANGED <<activeTests, startedFor, managerVars, driverVars, graphVars, adapterVars>>

\* completeE2ETest after the snapshot: the report is generated from the
\* run read before the await, the session's entry is deleted.
CompleteE2ETestReturns(s) ==
    /\ completing[s] # <<>>
    /\ e2eOut' = [op |-> "complete", session |-> s, scenario |-> "",
                  result |-> "report",
                  name |-> TestScenarios[Head(completing[s])]]
    /\ completing' = [completing EXCEPT ![s] = Tail(@)]
    /\ activeTests' = AfterComplete(activeTests, s)
    /\ UNCHANGED <<startedFor, managerVars, driverVars, graphVars, adapterVars>>

\* reset(): this.activeTests.clear()
ResetMonitor ==
    /\ activeTests' = [s \in Sessions |-> NoTest]
    /\ e2eOut' = [op |-> "reset", session |-> "", scenario |-> "",
                  result |-> "ok", name |-> ""]
    /\ UNCHANGED <<completing, startedFor, managerVars, driverVars, graphVars, adapterVars>>

NextMonitor ==
    \/ \E k \in ScenarioArgs, s \in Sessions : StartE2ETest(k, s)
    \/ \E s \in Sessions : CompleteE2ETest(s)
    \/ \E s \in Sessions : CompleteE2ETestReturns(s)
    \/ ResetMonitor

SpecMonitor == Init /\ [][NextMonitor]_vars

\* ------------------------------------------------ the dependency graph store

\* Ingests in one behaviour, edges in one batch, and the largest bounded
\* depth asked for.
MaxIngests == 3
MaxBatch == 2
MaxDepth == 1

Units == {"A", "B", "C"}
\* Edges as they arrive: an endpoint may lack its name.
EdgeArgs == (Units \X Units) \cup {<<"", "A">>, <<"B", "">>}
Unbounded == 0 - 1
Depths == {Unbounded} \cup (0..MaxDepth)

RECURSIVE BatchesUpTo(_)
BatchesUpTo(n) ==
    IF n = 0 THEN {{}}
    ELSE LET P == BatchesUpTo(n - 1) IN
         P \cup {b \cup {e} : b \in P, e \in EdgeArgs}

DirectDependencies(u) == {v \in Units : <<u, v>> \in edges}
ReverseDependencies(u) == {v \in Units : <<v, u>> \in edges}

\* A closure whose visited set does not start with the unit asked about.
RECURSIVE Closure(_, _, _)
Closure(frontier, visited, depth) ==
    LET next == UNION {DirectDependencies(f) : f \in frontier} \ visited IN
    IF next = {} THEN visited
    ELSE IF depth = 0 THEN visited \cup next
    ELSE Closure(next, visited \cup next, depth - 1)

ClosureWithStart(u, maxDepth) == Closure({u}, {}, maxDepth)

\* transitiveDependencies(unit, maxDepth): breadth first with a visited
\* set; depth 0 is the direct dependencies, a negative depth is unbounded.
TransitiveDependencies(u, maxDepth) == Closure({u}, {u}, maxDepth) \ {u}

\* A conservative scope made of the reverse dependencies only.
ReverseOnlyScope(t) == ReverseDependencies(t)

MinimalScope(t) == DirectDependencies(t)
ConservativeScope(t) == DirectDependencies(t) \cup ReverseDependencies(t)
TransitiveScope(t, depth) == TransitiveDependencies(t, depth) \cup {t}

\* A version bumped only when the edge set changes.
BumpedOnChange(v, old, new) == IF new = old THEN v ELSE v + 1

BumpedVersion(v, old, new) == v + 1

\* ingest(batch): edges with both names are merged, the others are
\* reported; the version is bumped.
Ingest(batch) ==
    /\ ingests < MaxIngests
    /\ LET valid == {e \in batch : e[1] # "" /\ e[2] # ""} IN
        /\ edges' = edges \cup valid
        /\ graphVersion' = BumpedVersion(graphVersion, edges, edges \cup valid)
        /\ graphOut' = [NoGraphOut EXCEPT
                          !.kind = "ingest",
                          !.errors = batch \ valid,
                          !.version = BumpedVersion(graphVersion, edges,
                                                    edges \cup valid)]
    /\ ingests' = ingests + 1
    /\ UNCHANGED <<managerVars, driverVars, monitorVars, adapterVars>>

QueryTransitiveDependencies(u, depth) ==
    /\ graphOut' = [NoGraphOut EXCEPT
                      !.kind = "transitiveDependencies",
                      !.target = u, !.depth = depth,
                      !.units = TransitiveDependencies(u, depth),
                      !.version = graphVersion]
    /\ UNCHANGED <<edges, graphVersion, ingests, managerVars, driverVars, monitorVars, adapterVars>>

\* A scope request under one of the three policies.
PlanScope(t, policy, depth) ==
    /\ policy = "transitive" \/ depth = 0
    /\ graphOut' = [NoGraphOut EXCEPT
                      !.kind = policy, !.target = t, !.depth = depth,
                      !.units = CASE policy = "minimal" -> MinimalScope(t)
                                  [] policy = "conservative" ->
                                        ConservativeScope(t)
                                  [] policy = "transitive" ->
                                        TransitiveScope(t, depth),
                      !.version = graphVersion]
    /\ UNCHANGED <<edges, graphVersion, ingests, managerVars, driverVars, monitorVars, adapterVars>>

NextGraph ==
    \/ \E batch \in BatchesUpTo(MaxBatch) : Ingest(batch)
    \/ \E u \in Units, depth \in Depths :
          QueryTransitiveDependencies(u, depth)
    \/ \E t \in Units, depth \in Depths,
          policy \in {"minimal", "conservative", "transitive"} :
            PlanScope(t, policy, depth)

SpecGraph == Init /\ [][NextGraph]_vars

\* --------------------------------------- executeInterpretation called directly

InterpretationStrategies == {"immediate", "queued", "background"}

\* interpret_modules in the debug adapter.  immediate: the requested
\* modules not yet interpreted are interpreted now, each with success or
\* failure, and the successes are listed.  queued, background: they are
\* held for later and the response lists none of them.
AdapterInterprets(modules, strategy) ==
    IF strategy = "immediate"
    THEN {[resp |-> [kind |-> "ok", interpreted |-> ok,
                     failed |-> (modules \ adapterInterpreted) \ ok],
           now |-> ok, later |-> {}] :
            ok \in SUBSET (modules \ adapterInterpreted)}
    ELSE {[resp |-> [kind |-> "ok", interpreted |-> {}, failed |-> {}],
           now |-> {}, later |-> modules \ adapterInterpreted]}

\* executeInterpretation(request) up to the coordinatedInterpret request;
\* without debug adapter it throws at once.
ExecuteInterpretationCall(modules, strategy) ==
    /\ direct.pc = "idle"
    /\ NoneInFlight
    /\ debugAdapter = "set"
    /\ direct' = [pc |-> "sent", modules |-> modules,
                  strategy |-> strategy, resp |-> NoResp]
    /\ UNCHANGED <<managerVars, driverVars, monitorVars, graphVars, adapterInterpreted,
                   adapterQueue>>

\* The debug adapter handles the request and answers, or the request fails.
AdapterHandlesRequest ==
    /\ direct.pc = "sent"
    /\ \/ \E a \in AdapterInterprets(direct.modules, direct.strategy) :
            /\ adapterInterpreted' = adapterInterpreted \cup a.now
            /\ adapterQueue' = adapterQueue \cup a.later
            /\ direct' = [direct EXCEPT !.pc = "answered", !.resp = a.resp]
       \/ /\ direct' = [direct EXCEPT
                          !.pc = "answered",
                          !.resp = [kind |-> "threw", interpreted |-> {},
                                    failed |-> {}]]
          /\ UNCHANGED <<adapterInterpreted, adapterQueue>>
    /\ UNCHANGED <<managerVars, driverVars, monitorVars, graphVars>>

\* executeInterpretation after the response: "update our tracking".
ExecuteInterpretationDone ==
    /\ direct.pc = "answered"
    /\ interpretedModules' =
          IF direct.resp.kind = "ok"
          THEN interpretedModules \cup TrackedModules(direct.resp)
          ELSE interpretedModules
    /\ direct' = NoDirect
    /\ UNCHANGED <<mgrVars, calls, lsScope, adapterLog, quiet, lastOp,
                   session, registered, pausedIn, userBps, adapterBps,
                   mergeIn, mergeOut, monitorVars, graphVars, driverVars,
                   adapterInterpreted, adapterQueue>>

\* The adapter interprets a module it held for later.
AdapterInterpretsLater(m) ==
    /\ m \in adapterQueue
    /\ adapterQueue' = adapterQueue \ {m}
    /\ adapterInterpreted' = adapterInterpreted \cup {m}
    /\ UNCHANGED <<managerVars, driverVars, monitorVars, graphVars, direct>>

\* The manager with callers of executeInterpretation, as in the e2e tests.
NextDirect ==
    \/ Configure /\ UNCHANGED <<adapterBps, envVars>>
    \/ /\ \E name \in StrategyNames \cup {"other"} :
             SetCoordinationStrategy(name)
       /\ UNCHANGED <<adapterBps, envVars>>
    \/ \E modules \in (SUBSET Modules) \ {{}},
          strategy \in InterpretationStrategies :
            ExecuteInterpretationCall(modules, strategy)
    \/ AdapterHandlesRequest
    \/ ExecuteInterpretationDone
    \/ \E m \in Modules : AdapterInterpretsLater(m)

SpecDirect == Init /\ [][NextDirect]_vars

\* ------------------------------------------------------- mergeDependencies

\* interpretationScope arrays in any order, with repeats.
AnalysisScopes == SeqsUpTo(Modules, MaxScopeLen)
AnalysisLists == SeqsUpTo(AnalysisScopes, MaxAnalyses)

\* A manager with any interpreted set is handed any list of analyses.
InitMerge ==
    /\ languageClient = TRUE
    /\ debugAdapter = "set"
    /\ interpretedModules \in SUBSET Modules
    /\ currentStrategy = "predictive"
    /\ coordinationEnabled = TRUE
    /\ initialized = TRUE
    /\ disposed = FALSE
    /\ calls = [c \in CallIds |-> IdleCall]
    /\ lsScope = [m \in Modules |-> UnknownScope]
    /\ adapterLog = <<>>
    /\ quiet = NoQuiet
    /\ lastOp = NoOp
    /\ session = NoSession
    /\ registered = FALSE
    /\ pausedIn = {}
    /\ userBps = {}
    /\ adapterBps = {}
    /\ mergeIn \in AnalysisLists
    /\ mergeOut = NoMerge
    /\ AuxInit

ApplyMergeDependencies ==
    /\ mergeOut = NoMerge
    /\ mergeOut' = MergeDependencies(mergeIn)
    /\ UNCHANGED <<mgrVars, interpretedModules, calls, lsScope, adapterLog,
                   quiet, lastOp, session, registered, pausedIn, userBps,
                   adapterBps, mergeIn, auxVars>>

SpecMerge == InitMerge /\ [][ApplyMergeDependencies]_vars

\* Breakpoint-change events arrive at any time (onDidChangeBreakpoints does
\* not wait for the call before).
NextOverlap ==
    \/ Configure /\ UNCHANGED <<adapterBps, envVars>>
    \/ /\ \E c \in CallIds, bps \in BpLists : Start(c, bps)
       /\ UNCHANGED <<adapterBps, envVars>>
    \/ CallStep /\ UNCHANGED envVars

SpecOverlap == Init /\ [][NextOverlap]_vars

\* What call c does when an answer to a request of its arrives, the answer
\* included.
CallProgress(c) ==
    /\ \/ DdAnalysisResponse(c)
       \/ \E k \in 1..MaxBps : PrAnalysisResponse(c, k)
       \/ AdapterResponds(c)
       \/ ExecuteInterpretationReturns(c)
    /\ UNCHANGED envVars

\* Breakpoint events handled one after the other, by a manager whose
\* language server and debug adapter answer every request, with a response
\* or an error.
NextResponsive ==
    \/ Configure /\ UNCHANGED <<adapterBps, envVars>>
    \/ /\ \E name \in StrategyNames \cup {"other"} :
             SetCoordinationStrategy(name)
       /\ UNCHANGED <<adapterBps, envVars>>
    \/ /\ NoneInFlight
       /\ \E c \in CallIds, bps \in BpLists : Start(c, bps)
       /\ UNCHANGED <<adapterBps, envVars>>
    \/ \E c \in CallIds : CallProgress(c)

SpecResponsive ==
    /\ Init
    /\ [][NextResponsive]_vars
    /\ WF_vars(\E c \in CallIds : CallProgress(c))

\* ------------------------ one scenario under demand-driven and under learning

\* The requests call c sends in this step, as their receivers see them.
RequestsSent(c) ==
    IF calls'[c].sent > calls[c].sent
    THEN <<[to |-> "debugAdapter", modules |-> calls'[c].req,
            mode |-> "immediate"]>>
    ELSE IF /\ calls'[c].pc = "dd_analysis"
            /\ calls[c].pc # "dd_analysis" \/ calls'[c].i # calls[c].i
    THEN <<[to |-> "languageServer",
            modules |-> <<BreakpointModule(calls'[c].bps[calls'[c].i])>>,
            mode |-> "minimal"]>>
    ELSE IF calls'[c].pc = "pr_analysis" /\ calls[c].pc # "pr_analysis"
    THEN LET plan == PlanInterpretationScope(calls'[c].bps) IN
         [j \in DOMAIN plan |->
            [to |-> "languageServer",
             modules |-> <<BreakpointModule(calls'[c].bps[plan[j]])>>,
             mode |-> "conservative"]]
    ELSE <<>>

twinEnv == <<lastOp, session, registered, pausedIn, userBps, mergeIn,
             mergeOut, monitorVars, graphVars, adapterVars>>

\* A manager that has some modules interpreted, initialized with a language
\* client, a debug adapter and the default strategy.
InitTwin ==
    /\ languageClient = TRUE
    /\ debugAdapter = "set"
    /\ interpretedModules \in SUBSET Modules
    /\ currentStrategy = "demand-driven"
    /\ coordinationEnabled = TRUE
    /\ initialized = TRUE
    /\ disposed = FALSE
    /\ calls = [c \in CallIds |-> IdleCall]
    /\ lsScope = [m \in Modules |-> UnknownScope]
    /\ adapterLog = <<>>
    /\ quiet = NoQuiet
    /\ lastOp = NoOp
    /\ session = NoSession
    /\ registered = FALSE
    /\ pausedIn = {}
    /\ userBps = {}
    /\ adapterBps = {}
    /\ mergeIn = <<>>
    /\ mergeOut = NoMerge
    /\ AuxInit

\* The demand-driven manager gets the breakpoint event.
TwinFirstCall(bps) ==
    /\ twin.phase = "none"
    /\ Start(1, bps)
    /\ twin' = [twin EXCEPT !.phase = "first", !.bps = bps,
                            !.interpreted0 = interpretedModules,
                            !.trace = RequestsSent(1)]
    /\ UNCHANGED <<adapterBps, twinEnv, pset, changed, fwd, ctl>>

\* A manager in the state the first one started from, with the learning
\* strategy; the language server and the debug adapter will answer it as
\* they answered the first.
TwinSecondManager ==
    /\ twin.phase = "first"
    /\ calls[1].pc = "done"
    /\ twin' = [twin EXCEPT !.phase = "between",
                            !.interpreted = interpretedModules,
                            !.caught = calls[1].caught]
    /\ interpretedModules' = twin.interpreted0
    /\ currentStrategy' = StrategyFor("learning")
    /\ quiet' = NoQuiet
    /\ adapterBps' = {}
    /\ UNCHANGED <<languageClient, debugAdapter, coordinationEnabled,
                   initialized, disposed, calls, lsScope, adapterLog,
                   twinEnv, pset, changed, fwd, ctl>>

\* It gets the same breakpoint event.
TwinSecondCall ==
    /\ twin.phase = "between"
    /\ Start(2, twin.bps)
    /\ twin' = [twin EXCEPT !.phase = "second", !.trace2 = RequestsSent(2)]
    /\ UNCHANGED <<adapterBps, twinEnv, pset, changed, fwd, ctl>>

\* A step of the call in progress, with the requests it sends noted; the
\* adapter's answers are noted for the first manager and repeated to the
\* second.
TwinStep(c) ==
    /\ twin.phase = IF c = 1 THEN "first" ELSE "second"
    /\ \/ /\ \/ DdAnalysisResponse(c)
             \/ ExecuteInterpretationReturns(c)
          /\ twin' = IF c = 1
                     THEN [twin EXCEPT !.trace = @ \o RequestsSent(c)]
                     ELSE [twin EXCEPT !.trace2 = @ \o RequestsSent(c)]
       \/ /\ AdapterResponds(c)
          /\ IF c = 1
             THEN twin' = [twin EXCEPT
                             !.answers = Append(@, calls'[c].resp)]
             ELSE /\ twin.replayed < Len(twin.answers) =>
                        calls'[c].resp = twin.answers[twin.replayed + 1]
                  /\ twin' = [twin EXCEPT !.replayed = @ + 1]
    /\ UNCHANGED <<twinEnv, pset, changed, fwd, ctl>>

NextTwin ==
    \/ \E bps \in BpLists : TwinFirstCall(bps)
    \/ TwinSecondManager
    \/ TwinSecondCall
    \/ \E c \in CallIds : TwinStep(c)

SpecTwin == InitTwin /\ [][NextTwin]_vars

\* ---------------------------------- PredictiveCoordinator.onBreakpointSet

\* predictions.slice(0, 5)
MaxPredictions == 5
\* Modules in the first transitive level of one analysis; they are named by
\* numbers.
MaxLevel1 == 6

Level1Choices ==
    {[k \in 1..n |-> k + off] : n \in 0..MaxLevel1, off \in 0..1}

\* Predictions that take the whole first level.
PredictEveryDependency(level1) == level1

\* predictLikelyDependencies: the first five modules of
\* dependencies.transitive['1'], none when the level is missing.
PredictLikelyDependencies(level1) ==
    SubSeq(level1, 1, IF Len(level1) < MaxPredictions THEN Len(level1)
                      ELSE MaxPredictions)

psetEnv == <<calls, lsScope, adapterLog, quiet, adapterBps, twinEnv, twin,
            changed, fwd, ctl>>

\* A manager initialized with the predictive strategy, with or without
\* language client and debug adapter.
InitPredict ==
    /\ languageClient \in BOOLEAN
    /\ debugAdapter \in {"none", "set"}
    /\ interpretedModules = {}
    /\ currentStrategy = "predictive"
    /\ coordinationEnabled = TRUE
    /\ initialized = TRUE
    /\ disposed = FALSE
    /\ calls = [c \in CallIds |-> IdleCall]
    /\ lsScope = [m \in Modules |-> UnknownScope]
    /\ adapterLog = <<>>
    /\ quiet = NoQuiet
    /\ lastOp = NoOp
    /\ session = NoSession
    /\ registered = FALSE
    /\ pausedIn = {}
    /\ userBps = {}
    /\ adapterBps = {}
    /\ mergeIn = <<>>
    /\ mergeOut = NoMerge
    /\ AuxInit

\* onBreakpointSet from "Queue likely dependencies" on: the background
\* request goes out when there are predictions (executeInterpretation throws
\* without debug adapter).
PredictAndQueue(r) ==
    LET predictions == PredictLikelyDependencies(r.level1) IN
    IF Len(predictions) = 0 THEN [r EXCEPT !.pc = "returned"]
    ELSE IF debugAdapter = "none" THEN [r EXCEPT !.pc = "threw"]
    ELSE [r EXCEPT !.pc = "background",
                   !.background = Append(@, predictions)]

\* onBreakpointSet(breakpoint) up to the analysis request.
PrOnBreakpointSet(bp) ==
    /\ pset.pc = "idle"
    /\ pset' = IF BreakpointModule(bp) = NoModule
               THEN [pset EXCEPT !.pc = "returned"]
               ELSE IF ~languageClient
               THEN [pset EXCEPT !.pc = "threw",
                                 !.module = BreakpointModule(bp)]
               ELSE [pset EXCEPT !.pc = "analysis",
                                 !.module = BreakpointModule(bp)]
    /\ UNCHANGED <<mgrVars, interpretedModules, psetEnv>>

\* The analysis is answered: an error, or a scope and a first transitive
\* level.  A scope that is not empty is interpreted at once.
PrSetAnalysisResponse ==
    /\ pset.pc = "analysis"
    /\ \/ pset' = [pset EXCEPT !.pc = "threw"]
       \/ \E scope \in ScopeChoices, level1 \in Level1Choices :
            LET r == [pset EXCEPT !.scope = scope, !.level1 = level1] IN
            pset' = IF Len(scope) = 0 THEN PredictAndQueue(r)
                    ELSE IF debugAdapter = "none"
                    THEN [r EXCEPT !.pc = "threw"]
                    ELSE [r EXCEPT !.pc = "immediate",
                                   !.immediate = "sent"]
    /\ UNCHANGED <<mgrVars, interpretedModules, psetEnv>>

\* The 'immediate' request is answered: executeInterpretation rethrows an
\* error, else tracks the interpreted modules and onBreakpointSet goes on.
PrSetImmediateResponse ==
    /\ pset.pc = "immediate"
    /\ \E a \in AdapterAnswers(pset.scope) :
         IF a.kind = "ok"
         THEN /\ interpretedModules' =
                    interpretedModules \cup TrackedModules(a)
              /\ pset' = PredictAndQueue([pset EXCEPT !.immediate = "ok"])
         ELSE /\ pset' = [pset EXCEPT !.pc = "threw",
                                      !.immediate = "threw"]
              /\ UNCHANGED interpretedModules
    /\ UNCHANGED <<mgrVars, psetEnv>>

\* The 'background' request is answered: the adapter holds the modules for
\* later and lists none, or the request fails.
PrSetBackgroundResponse ==
    /\ pset.pc = "background"
    /\ \E ok \in BOOLEAN :
         pset' = [pset EXCEPT !.pc = IF ok THEN "returned" ELSE "threw"]
    /\ UNCHANGED <<mgrVars, interpretedModules, psetEnv>>

NextPredict ==
    \/ \E bp \in Breakpoints : PrOnBreakpointSet(bp)
    \/ PrSetAnalysisResponse
    \/ PrSetImmediateResponse
    \/ PrSetBackgroundResponse

SpecPredict == InitPredict /\ [][NextPredict]_vars

\* ------------------------------------------------------- shouldReinterpret

\* Files in one shouldReinterpret call.
MaxChanged == 2

\* A manager under any strategy, or disposed, with any interpreted set.
InitReinterpret ==
    /\ languageClient = TRUE
    /\ debugAdapter = "set"
    /\ interpretedModules \in SUBSET Modules
    /\ currentStrategy \in StrategyNames \cup {NoStrategy}
    /\ disposed = (currentStrategy = NoStrategy)
    /\ coordinationEnabled = ~disposed
    /\ initialized = TRUE
    /\ calls = [c \in CallIds |-> IdleCall]
    /\ lsScope = [m \in Modules |-> UnknownScope]
    /\ adapterLog = <<>>
    /\ quiet = NoQuiet
    /\ lastOp = NoOp
    /\ session = NoSession
    /\ registered = FALSE
    /\ pausedIn = {}
    /\ userBps = {}
    /\ adapterBps = {}
    /\ mergeIn = <<>>
    /\ mergeOut = NoMerge
    /\ AuxInit

\* shouldReinterpret(changedFiles) is called and answers.
ApplyShouldReinterpret(changedFiles) ==
    /\ lastOp' = [op |-> "shouldReinterpret", name |-> "",
                  enabled |-> ShouldReinterpret(changedFiles)]
    /\ changed' = changedFiles
    /\ UNCHANGED <<mgrVars, interpretedModules, calls, lsScope, adapterLog,
                   quiet, session, registered, pausedIn, userBps,
                   adapterBps, mergeIn, mergeOut, monitorVars, graphVars,
                   adapterVars, twin, pset, fwd, ctl>>

NextReinterpret ==
    \E changedFiles \in SeqsUpTo(Files, MaxChanged) :
        ApplyShouldReinterpret(changedFiles)

SpecReinterpret == InitReinterpret /\ [][NextReinterpret]_vars

\* ---------------------------------------------- breakpoint-change events

\* Removed breakpoints in one event.
MaxRemoved == 1

\* BreakpointsChangeEvent: added, removed, changed.
EventArgs ==
    {e \in BpLists \X SeqsUpTo(Breakpoints, MaxRemoved) \X BpLists :
        Len(e[1]) + Len(e[3]) <= MaxBps}

\* A tracker that forwards the removed breakpoints too.
ForwardsRemoved(added, removed, chg) == added \o removed \o chg

\* event.added.concat(event.changed)
Forwarded(added, removed, chg) == added \o chg

fwdEnv == <<lastOp, session, registered, pausedIn, userBps, adapterBps,
            mergeIn, mergeOut, monitorVars, graphVars, adapterVars, twin,
            pset, changed, ctl>>

\* onDidChangeBreakpoints(event), for the first event of the session: the
\* manager of the session, if there is one, gets the added and changed
\* breakpoints of an event that has any breakpoint.
OnBreakpointsChangeEvent(added, removed, chg) ==
    /\ ~fwd.seen
    /\ NoneInFlight
    /\ IF registered /\ Len(added) + Len(removed) + Len(chg) > 0
       THEN \E c \in CallIds :
              /\ Start(c, Forwarded(added, removed, chg))
              /\ fwd' = [seen |-> TRUE, added |-> added,
                         removed |-> removed, changed |-> chg, call |-> c]
       ELSE /\ fwd' = [seen |-> TRUE, added |-> added, removed |-> removed,
                       changed |-> chg, call |-> 0]
            /\ UNCHANGED <<mgrVars, interpretedModules, calls, lsScope,
                           adapterLog, quiet>>
    /\ UNCHANGED fwdEnv

\* The tracker of a session and the first breakpoint-change event it gets,
\* before or after the session stops.
NextForward ==
    \/ \E enabled, client \in BOOLEAN, name \in StrategyNames :
          OnWillStartSession(enabled, name, client)
    \/ OnWillStopSession
    \/ \E e \in EventArgs : OnBreakpointsChangeEvent(e[1], e[2], e[3])
    \/ CallStep /\ UNCHANGED envVars

SpecForward == Init /\ [][NextForward]_vars

\* ------------------------------------------------- the E2E test controller

ctlEnv == <<mgrVars, interpretedModules, calls, lsScope, adapterLog, quiet,
            lastOp, session, registered, pausedIn, userBps, adapterBps,
            mergeIn, mergeOut, graphVars, adapterVars, twin, pset, changed,
            fwd>>

\* executeE2ETest(scenarioName) up to the simulated workflow, for the mock
\* session s: a manager is created and initialized, which starts the test
\* in its monitor (an unknown scenario is logged), and the test is put into
\* the controller's activeTests.  runE2ETest offers registered scenarios
\* only.
ExecuteE2ETest(k, s) ==
    /\ ctl.run[s].pc = "idle"
    /\ IF k \notin DOMAIN TestScenarios
       THEN /\ e2eOut' = [op |-> "start", session |-> s, scenario |-> k,
                          result |-> "error", name |-> ""]
            /\ UNCHANGED <<activeTests, startedFor>>
       ELSE /\ activeTests' = [activeTests EXCEPT ![s] = k]
            /\ startedFor' = [startedFor EXCEPT ![s] = @ \cup {k}]
            /\ e2eOut' = [op |-> "start", session |-> s, scenario |-> k,
                          result |-> "ok", name |-> ""]
    /\ ctl' = [ctl EXCEPT !.active = @ \cup {s},
                          !.run[s].pc = "workflow"]
    /\ UNCHANGED <<completing, ctlEnv>>

\* The simulated workflow ends.  With an error, executeE2ETest throws; else
\* it calls manager.completeE2ETest(), which returns null when the monitor
\* has no test run for the session.  The finally block removes the test.
WorkflowEnds(s, ok) ==
    /\ ctl.run[s].pc = "workflow"
    /\ IF ~ok
       THEN /\ ctl' = [ctl EXCEPT !.active = @ \ {s},
                                  !.run[s] = [pc |-> "returned",
                                              workflow |-> "error",
                                              result |-> "threw"]]
            /\ UNCHANGED <<completing, e2eOut>>
       ELSE IF activeTests[s] = NoTest
       THEN /\ ctl' = [ctl EXCEPT !.active = @ \ {s},
                                  !.run[s] = [pc |-> "returned",
                                              workflow |-> "ok",
                                              result |-> "null"]]
            /\ e2eOut' = [op |-> "complete", session |-> s,
                          scenario |-> "", result |-> "error", name |-> ""]
            /\ UNCHANGED completing
       ELSE /\ Len(completing[s]) < MaxCompleting
            /\ completing' = [completing EXCEPT
                                ![s] = Append(@, activeTests[s])]
            /\ e2eOut' = [op |-> "completeCall", session |-> s,
                          scenario |-> "", result |-> "pending", name |-> ""]
            /\ ctl' = [ctl EXCEPT !.run[s].pc = "completing",
                                  !.run[s].workflow = "ok"]
    /\ UNCHANGED <<activeTests, startedFor, ctlEnv>>

\* completeE2ETest of the run returns its report; executeE2ETest returns it.
RunCompleteReturns(s) ==
    /\ ctl.run[s].pc = "completing"
    /\ completing[s] # <<>>
    /\ e2eOut' = [op |-> "complete", session |-> s, scenario |-> "",
                  result |-> "report",
                  name |-> TestScenarios[Head(completing[s])]]
    /\ completing' = [completing EXCEPT ![s] = Tail(@)]
    /\ activeTests' = AfterComplete(activeTests, s)
    /\ ctl' = [ctl EXCEPT !.active = @ \ {s},
                          !.run[s].pc = "returned",
                          !.run[s].result = "report"]
    /\ UNCHANGED <<startedFor, ctlEnv>>

\* showE2EReport up to the quick pick: the user selects an active test.
ShowE2EReport(s) ==
    /\ ctl.show.pc = "idle"
    /\ s \in ctl.active
    /\ ctl' = [ctl EXCEPT !.show = [pc |-> "picked", test |-> s]]
    /\ UNCHANGED <<monitorVars, ctlEnv>>

\* showE2EReport after the quick pick: completeE2ETest of the selected
\* test's manager, if the test is still in activeTests.
ShowCompletes ==
    /\ ctl.show.pc = "picked"
    /\ LET s == ctl.show.test IN
       IF s \in ctl.active /\ activeTests[s] # NoTest
       THEN /\ Len(completing[s]) < MaxCompleting
            /\ completing' = [completing EXCEPT
                                ![s] = Append(@, activeTests[s])]
            /\ e2eOut' = [op |-> "completeCall", session |-> s,
                          scenario |-> "", result |-> "pending", name |-> ""]
            /\ ctl' = [ctl EXCEPT !.show.pc = "completing"]
       ELSE /\ ctl' = [ctl EXCEPT !.show = [pc |-> "idle", test |-> ""]]
            /\ e2eOut' = IF s \in ctl.active
                         THEN [op |-> "complete", session |-> s,
                               scenario |-> "", result |-> "error",
                               name |-> ""]
                         ELSE e2eOut
            /\ UNCHANGED completing
    /\ UNCHANGED <<activeTests, startedFor, ctlEnv>>

\* The report of showE2EReport arrives and is displayed.
ShowReturns ==
    /\ ctl.show.pc = "completing"
    /\ LET s == ctl.show.test IN
        /\ completing[s] # <<>>
        /\ e2eOut' = [op |-> "complete", session |-> s, scenario |-> "",
                      result |-> "report",
                      name |-> TestScenarios[Head(completing[s])]]
        /\ completing' = [completing EXCEPT ![s] = Tail(@)]
        /\ activeTests' = AfterComplete(activeTests, s)
    /\ ctl' = [ctl EXCEPT !.show = [pc |-> "idle", test |-> ""]]
    /\ UNCHANGED <<startedFor, ctlEnv>>

\* resetE2EMonitoring: the monitor of every active test is reset and
\* activeTests is cleared.
ResetE2EMonitoring ==
    /\ activeTests' = [s \in Sessions |->
                          IF s \in ctl.active THEN NoTest
                          ELSE activeTests[s]]
    /\ ctl' = [ctl EXCEPT !.active = {}]
    /\ e2eOut' = [op |-> "reset", session |-> "", scenario |-> "",
                  result |-> "ok", name |-> ""]
    /\ UNCHANGED <<completing, startedFor, ctlEnv>>

NextController ==
    \/ \E k \in ScenarioArgs \cap DOMAIN TestScenarios, s \in Sessions :
          ExecuteE2ETest(k, s)
    \/ \E s \in Sessions, ok \in BOOLEAN : WorkflowEnds(s, ok)
    \/ \E s \in Sessions : RunCompleteReturns(s)
    \/ \E s \in Sessions : ShowE2EReport(s)
    \/ ShowCompletes
    \/ ShowReturns
    \/ ResetE2EMonitoring

SpecController == Init /\ [][NextController]_vars

\* ------------------------------------------------------------- properties

C2_OnlyDeltaSent ==
    \A k \in DOMAIN adapterLog : adapterLog[k].already = {}

\* C3: at most one onBreakpointsChanged call is between its start and its
\* completion.
C3_OneRunAtATime ==
    Cardinality({c \in CallIds : InFlight(c)}) <= 1

\* C4: coordinatedInterpret requests for the same target module reach the
\* debug adapter in the order in which their calls were submitted.
C4_PerModuleFifo ==
    \A j, k \in DOMAIN adapterLog :
        (j < k /\ adapterLog[j].targets \cap adapterLog[k].targets # {})
            => adapterLog[j].call <= adapterLog[k].call

\* C5: no status snapshot read while a call is in flight holds only part of
\* the modules that call adds.
C5_NoTornSnapshot ==
    \A c \in CallIds : ~calls[c].torn

\* C6: when the analysis or interpretation for one breakpoint of a batch
\* fails, every other breakpoint of the batch is still processed.
C6_FailureDoesNotAbortBatch ==
    \A c \in CallIds : ~calls[c].aborted

\* C7: every module whose analysis or interpretation failed during a call
\* is named in the result the call gives to its caller.
C7_FailuresSurfaced ==
    \A c \in CallIds : ~calls[c].swallowed

\* C11: when the interpretation a call asked for has succeeded, the call
\* has installed all requested breakpoints by the time it completes.
C11_BreakpointsInstalledAfterInterpretation ==
    \A c \in CallIds : ~calls[c].uninstalled

C13_NoRequestWhilePaused ==
    \A k \in DOMAIN adapterLog : adapterLog[k].paused = {}

\* C14: every call completes, also when the language server or the debug
\* adapter never answers a request.
C14_CallsComplete ==
    \A c \in CallIds : InFlight(c) ~> (calls[c].pc = "done")

\* C15: the requests in flight towards the language server and the debug
\* adapter never exceed the configured concurrency limit.
C15_ConcurrencyBounded ==
    RequestsInFlight <= MaxConcurrentAnalysis

\* The orderings of a list of analyses.
Orderings(s) ==
    {[k \in DOMAIN s |-> s[f[k]]] :
        f \in {g \in [DOMAIN s -> DOMAIN s] :
                  \A j, k \in DOMAIN s : g[j] = g[k] => j = k}}

\* C16: the result of mergeDependencies, as a set, is the union of the
\* scopes minus the interpreted set; it has no duplicate; it is the same
\* for every ordering of the analyses and when one analysis is given twice.
C16_MergeIsUnionMinusInterpreted ==
    mergeOut # NoMerge =>
        LET out == SeqToSet(mergeOut) IN
        /\ out = UNION {SeqToSet(mergeIn[k]) : k \in DOMAIN mergeIn}
                    \ interpretedModules
        /\ Len(mergeOut) = Cardinality(out)
        /\ \A o \in Orderings(mergeIn) :
              SeqToSet(MergeDependencies(o)) = out
        /\ \A k \in DOMAIN mergeIn :
              SeqToSet(MergeDependencies(Append(mergeIn, mergeIn[k]))) = out

\* Two different analyses that share a module and name an interpreted one
\* have been merged into a non-empty result.
C16_MergedOverlappingAnalyses ==
    /\ mergeOut \notin {NoMerge, <<>>}
    /\ Len(mergeIn) = 2 /\ mergeIn[1] # mergeIn[2]
    /\ SeqToSet(mergeIn[1]) \cap SeqToSet(mergeIn[2]) # {}
    /\ (SeqToSet(mergeIn[1]) \cup SeqToSet(mergeIn[2]))
            \cap interpretedModules # {}

\* A step in which a call in flight has noted a status snapshot.
StatusRead ==
    \E c \in CallIds :
        /\ InFlight(c)
        /\ calls'[c].pc = calls[c].pc
        /\ calls'[c].obs # calls[c].obs

StatusCountMatches ==
    LET st == GetInterpretationStatus IN
    /\ st.interpretedCount = Cardinality(SeqToSet(st.interpretedModules))
    /\ st.interpretedCount = Len(st.interpretedModules)

\* C17: a read of getInterpretationStatus changes no field of the manager,
\* sends no request and moves no call, and in every state the snapshot's
\* interpretedCount is the number of distinct entries of its
\* interpretedModules.
C17_StatusIsReadOnlySnapshot ==
    [][/\ StatusCountMatches
       /\ StatusCountMatches'
       /\ StatusRead =>
            /\ UNCHANGED <<mgrVars, interpretedModules, lsScope, adapterLog,
                           adapterBps>>
            /\ \A c \in CallIds :
                  calls'[c] = [calls[c] EXCEPT !.obs = calls'[c].obs]]_vars

\* A snapshot holding a module was read while a call was in flight.
C17_StatusReadInFlight ==
    \E c \in CallIds :
        /\ \E o \in calls[c].obs : o # {}
        /\ GetInterpretationStatus.interpretedCount > 0

\* A breakpoint event has reached a manager.
EventDelivered ==
    \E c \in CallIds : calls[c].pc = "idle" /\ calls'[c].pc # "idle"

ManagerLifecycle ==
    /\ registered => session.enabled /\ session.state = "started"
    /\ session.state = "stopped" => ~registered
    /\ (session.state # "none" /\ session.enabled /\ ~registered)
            => disposed /\ ~coordinationEnabled

\* C18: a manager is registered only for a started session whose
\* configuration enables coordination; once the session has stopped, or the
\* factory was disposed, the manager is disposed and unregistered; a
\* breakpoint event reaches a manager only while it is registered.
C18_SessionLifecycle ==
    [][/\ ManagerLifecycle
       /\ ManagerLifecycle'
       /\ EventDelivered => registered /\ ~disposed]_vars

\* A session whose manager interpreted modules has stopped.
C18_StoppedAfterInterpreting ==
    /\ session.state = "stopped"
    /\ session.enabled
    /\ disposed
    /\ interpretedModules # {}

\* C19: after initialize() with coordination.enabled and a strategy name of
\* the three, coordination is enabled and the current strategy has that
\* name, whatever the language client and the answer to setCoordinationMode.
C19_InitializeSetsStrategy ==
    (lastOp.op = "initialize" /\ lastOp.enabled
        /\ lastOp.name \in StrategyNames)
    => coordinationEnabled /\ currentStrategy = lastOp.name

\* C20: after setCoordinationStrategy(n) the current strategy is n when n
\* is one of the three names and demand-driven otherwise; before dispose()
\* the current strategy is always one of the three.
C20_StrategySetClosed ==
    /\ lastOp.op = "setCoordinationStrategy" =>
          currentStrategy = IF lastOp.name \in StrategyNames
                            THEN lastOp.name ELSE "demand-driven"
    /\ ~disposed => currentStrategy \in StrategyNames

\* An unknown name was given to setCoordinationStrategy of an enabled
\* manager that had handled a breakpoint event and interpreted modules.
C20_UnknownNameGiven ==
    /\ lastOp.op = "setCoordinationStrategy"
    /\ lastOp.name \notin StrategyNames
    /\ ~disposed
    /\ coordinationEnabled
    /\ \E c \in CallIds : calls[c].pc = "done" /\ calls[c].added # {}

MonitorOutcome ==
    /\ (e2eOut.op = "complete" /\ e2eOut.result = "report") =>
          /\ e2eOut.name \in
                {TestScenarios[k] : k \in startedFor[e2eOut.session]}
          /\ activeTests[e2eOut.session] = NoTest
    /\ e2eOut.op = "start" =>
          (e2eOut.result = "error"
              <=> e2eOut.scenario \notin DOMAIN TestScenarios)

\* C21: a report of completeE2ETest carries the name of a scenario that
\* startE2ETest registered for the session, and the session then has no
\* active test; a completeE2ETest call for a session without active test
\* (never started, completed, or reset) fails; startE2ETest fails exactly
\* for an unknown scenario and then leaves activeTests as it was.
C21_MonitorProtocol ==
    [][/\ MonitorOutcome
       /\ MonitorOutcome'
       /\ e2eOut'.op = "completeCall" =>
             activeTests[e2eOut'.session] # NoTest
       /\ (e2eOut'.op = "complete" /\ completing' = completing) =>
             /\ e2eOut'.result = "error"
             /\ activeTests[e2eOut'.session] = NoTest
       /\ (e2eOut'.op = "start" /\ e2eOut'.result = "error") =>
             activeTests' = activeTests]_vars

\* A started test was completed with its report, and a second completion
\* of the same session failed.
C21_CompletedTwice ==
    /\ e2eOut.op = "complete"
    /\ e2eOut.result = "error"
    /\ startedFor[e2eOut.session] = {"user_workflow_simple"}
    /\ completing[e2eOut.session] = <<>>

\* The units a chain of edges leads to from u.
Reachable(u) ==
    {p[Len(p)] :
        p \in {q \in UNION {[1..n -> Units] : n \in 1..Cardinality(Units)} :
                  /\ <<u, q[1]>> \in edges
                  /\ \A k \in 1..(Len(q) - 1) :
                        <<q[k], q[k + 1]>> \in edges}}

CycleABC == {<<"A", "B">>, <<"B", "C">>, <<"C", "A">>}

\* The last answer of the graph store was computed on the present graph.
AnswerIsCurrent == graphOut.version = graphVersion

\* C22: transitiveDependencies with unbounded depth returns the units
\* reachable from the unit, without the unit itself; on a graph containing
\* the cycle A -> B -> C -> A it returns exactly {B, C} for A.
C22_CycleSafe ==
    (/\ graphOut.kind = "transitiveDependencies"
     /\ graphOut.depth = Unbounded
     /\ AnswerIsCurrent)
    => /\ graphOut.units = Reachable(graphOut.target) \ {graphOut.target}
       /\ (CycleABC \subseteq edges /\ graphOut.target = "A")
            => graphOut.units = {"B", "C"}

\* transitiveDependencies(A, unbounded) was answered on a graph with the
\* cycle.
C22_AskedOnCycle ==
    /\ graphOut.kind = "transitiveDependencies"
    /\ graphOut.depth = Unbounded
    /\ graphOut.target = "A"
    /\ AnswerIsCurrent
    /\ CycleABC \subseteq edges
    /\ graphOut.units = {"B", "C"}

\* C23: for every target and every graph the minimal scope is within the
\* conservative scope and within the transitive scope of depth 1 or more.
C23_PolicyContainment ==
    /\ \A t \in Units :
          /\ MinimalScope(t) \subseteq ConservativeScope(t)
          /\ \A d \in 1..MaxDepth :
                MinimalScope(t) \subseteq TransitiveScope(t, d)
    /\ (graphOut.kind = "conservative" /\ AnswerIsCurrent) =>
          MinimalScope(graphOut.target) \subseteq graphOut.units
    /\ (graphOut.kind = "transitive" /\ graphOut.depth >= 1
            /\ AnswerIsCurrent) =>
          MinimalScope(graphOut.target) \subseteq graphOut.units

\* A conservative scope was answered that is larger than the minimal one
\* of the same target, which is not empty.
C23_ConservativeLarger ==
    /\ graphOut.kind = "conservative"
    /\ AnswerIsCurrent
    /\ MinimalScope(graphOut.target) # {}
    /\ graphOut.units # MinimalScope(graphOut.target)
    /\ TransitiveScope(graphOut.target, 1)
            # MinimalScope(graphOut.target) \cup {graphOut.target}

\* C24: no step decreases the graph version, and every ingest increases it.
C24_MonotonicVersion ==
    [][/\ graphVersion' >= graphVersion
       /\ ingests' # ingests => graphVersion' > graphVersion]_vars

\* There were more ingests than the graph has edges: one of at least two
\* ingests added none.
C24_IngestWithoutNewEdge ==
    /\ ingests >= 2
    /\ graphVersion >= 2
    /\ graphOut.kind = "ingest"
    /\ edges # {}
    /\ Cardinality(edges) < ingests

\* C25: whenever no request is in flight, the manager's interpreted set is
\* the set of modules interpreted in the debug adapter.
C25_InterpretedSetAuthoritative ==
    (direct.pc = "idle" /\ NoneInFlight) =>
        interpretedModules = adapterInterpreted

\* C26: no step removes a module from the interpreted set, and a step that
\* adds modules is executeInterpretation taking the modules a response of
\* the debug adapter lists as interpreted.
C26_InterpretedSetOnlyGrows ==
    [][/\ interpretedModules \subseteq interpretedModules'
       /\ interpretedModules' # interpretedModules =>
            \E c \in CallIds :
                /\ calls[c].pc \in {"dd_resp", "pr_resp"}
                /\ calls'[c] # calls[c]
                /\ calls[c].resp.kind = "ok"
                /\ interpretedModules' =
                        interpretedModules \cup calls[c].resp.interpreted]_vars

\* A manager that had interpreted modules was disposed and then asked
\* whether to reinterpret.
C26_DisposedWithModules ==
    /\ disposed
    /\ interpretedModules # {}
    /\ lastOp.op = "shouldReinterpret"

\* Call c sends a request in this step: a coordinatedInterpret request to the
\* debug adapter or an analysis request to the language server.
SendsRequest(c) ==
    \/ calls'[c].sent > calls[c].sent
    \/ /\ calls'[c].pc = "dd_analysis"
       /\ calls[c].pc # "dd_analysis" \/ calls'[c].i # calls[c].i
    \/ /\ calls'[c].pc = "pr_analysis"
       /\ calls[c].pc # "pr_analysis"

\* C27: once dispose() has returned, no step of the manager sends a request
\* or adds a module to the interpreted set.
C27_QuietAfterDispose ==
    [][disposed =>
        /\ interpretedModules' = interpretedModules
        /\ \A c \in CallIds : ~SendsRequest(c)]_vars

\* C28: a demand-driven call (learning delegates to it) sends an analysis
\* request for a breakpoint only when the breakpoint's module is not in the
\* interpreted set, and an interpretation request only after such an
\* analysis of the same breakpoint.
C28_InterpretedModuleNotAnalysed ==
    [][\A c \in CallIds :
        (IsDemandDriven(calls'[c].strat) /\ SendsRequest(c))
        => IF calls'[c].pc = "dd_analysis"
           THEN \* the test of onBreakpointSet has just been made
                BreakpointModule(calls'[c].bps[calls'[c].i])
                    \notin interpretedModules'
           ELSE \* the interpretation follows the analysis the test allowed
                /\ calls'[c].pc = "dd_interp"
                /\ calls[c].pc = "dd_analysis"
                /\ calls'[c].i = calls[c].i]_vars

\* A demand-driven call has passed over its first breakpoint, whose module
\* is interpreted, without any request, and analyses its second.
C28_SkippedInterpretedModule ==
    \E c \in CallIds :
        /\ IsDemandDriven(calls[c].strat)
        /\ calls[c].pc = "dd_analysis"
        /\ calls[c].i = 2
        /\ 1 \in calls[c].handled
        /\ calls[c].sent = 0
        /\ BreakpointModule(calls[c].bps[1]) \in interpretedModules

\* C29: a call sends no request once one of its requests has failed; a
\* demand-driven call requests the analysis of each breakpoint at most once,
\* going up the list, and the interpretation once after it; a predictive
\* call issues its analyses once, one per planned breakpoint, and one
\* interpretation after them.
C29_NoAutomaticRetry ==
    [][\A c \in CallIds :
        SendsRequest(c) =>
            /\ calls[c].failedIdx = {}
            /\ CASE calls'[c].pc = "dd_analysis" ->
                        calls[c].pc = "idle" \/ calls'[c].i > calls[c].i
                 [] calls'[c].pc = "dd_interp" ->
                        /\ calls[c].pc = "dd_analysis"
                        /\ calls'[c].i = calls[c].i
                 [] calls'[c].pc = "pr_analysis" ->
                        /\ calls[c].pc = "idle"
                        /\ Len(PlanInterpretationScope(calls'[c].bps))
                             = Cardinality(SeqToSet(
                                 PlanInterpretationScope(calls'[c].bps)))
                 [] calls'[c].pc = "pr_interp" -> calls[c].pc = "pr_analysis"
                 [] OTHER -> FALSE]_vars

\* A call that had sent an interpretation request has ended in the catch
\* block.
C29_EndedAfterFailure ==
    \E c \in CallIds :
        /\ calls[c].pc = "done"
        /\ calls[c].caught
        /\ calls[c].sent > 0
        /\ ~disposed

\* C30: when every request is answered, an onBreakpointsChanged call in
\* progress completes (one call is in progress at a time).
C30_CallsTerminate == (~NoneInFlight) ~> NoneInFlight

\* Under the learning strategy, a second call has completed after sending
\* an interpretation request.
C30_CompletedAfterRequests ==
    /\ currentStrategy = "learning"
    /\ \A c \in CallIds : calls[c].pc = "done"
    /\ \E c \in CallIds : calls[c].sent > 0 /\ ~calls[c].caught

\* C8: when executeInterpretation gets its response the interpreted set
\* becomes the previous set plus exactly the modules the response lists as
\* interpreted, and no module listed as failed is added; when the request
\* throws, or no debug adapter is set, the interpreted set is unchanged.
C8_ExecuteInterpretationEffect ==
    [][\A c \in CallIds :
        /\ (calls[c].pc \in {"dd_resp", "pr_resp"}
                /\ calls'[c].pc # calls[c].pc) =>
              IF calls[c].resp.kind = "ok"
              THEN /\ interpretedModules' =
                        interpretedModules \cup calls[c].resp.interpreted
                   /\ (calls[c].resp.failed \cap interpretedModules')
                        \subseteq interpretedModules
              ELSE interpretedModules' = interpretedModules
        /\ (calls[c].pc \in {"dd_analysis", "pr_analysis"}
                /\ debugAdapter = "none" /\ calls'[c].pc = "done") =>
              interpretedModules' = interpretedModules]_vars

\* A call goes on after a response that listed one module as interpreted
\* and another as failed.
C8_PartialResponseHandled ==
    \E c \in CallIds :
        InFlight(c) /\ calls[c].added # {} /\ calls[c].failedUnits # {}

\* C9: the promise of onBreakpointsChanged never rejects.
C9_NeverRejects ==
    \A c \in CallIds : calls[c].ret # "rejected"

\* A call has completed through the catch block although no request of it
\* failed: dispose() ran while it was awaiting.
C9_CaughtAfterDispose ==
    \E c \in CallIds :
        /\ calls[c].pc = "done" /\ calls[c].caught /\ ~calls[c].swallowed
        /\ disposed

\* C10: a call made while coordination is disabled is over at once: it
\* sends no request to the language server or the debug adapter and leaves
\* the interpreted set unchanged.
C10_DisabledCallIsNoOp ==
    [][\A c \in CallIds :
        (calls[c].pc = "idle" /\ calls'[c].disabledAtStart) =>
            /\ calls'[c].pc = "done" /\ calls'[c].sent = 0
            /\ interpretedModules' = interpretedModules
            /\ adapterLog' = adapterLog
            /\ lsScope' = lsScope]_vars

\* A call was made on a disposed manager that had interpreted modules.
C10_CallAfterDispose ==
    \E c \in CallIds :
        /\ calls[c].pc = "done" /\ calls[c].disabledAtStart
        /\ disposed /\ interpretedModules # {}

\* planInterpretationScope, targetModules: a Set filled in breakpoint order.
RECURSIVE BreakpointModulesFrom(_, _)
BreakpointModulesFrom(bps, j) ==
    IF j > Len(bps) THEN <<>>
    ELSE (IF BreakpointModule(bps[j]) # NoModule
          THEN <<BreakpointModule(bps[j])>> ELSE <<>>)
         \o BreakpointModulesFrom(bps, j + 1)

TargetModules(bps) == Distinct(BreakpointModulesFrom(bps, 1), <<>>)

\* C31: the plan of a breakpoint list names each target module once, and a
\* predictive call issues exactly one analysis request per distinct target
\* module.
C31_OneAnalysisPerTarget ==
    [][\A c \in CallIds :
        (calls[c].pc = "idle" /\ calls'[c].pc = "pr_analysis") =>
            LET targets == TargetModules(calls'[c].bps) IN
            /\ Cardinality(SeqToSet(targets)) = Len(targets)
            /\ Cardinality(calls'[c].pending) = Len(targets)
            /\ \A m \in SeqToSet(targets) :
                 Cardinality({k \in calls'[c].pending :
                     BreakpointModule(calls'[c].bps[k]) = m}) = 1]_vars

RECURSIVE IsPrefix(_, _)
IsPrefix(s, t) ==
    \/ s = <<>>
    \/ /\ t # <<>> /\ Head(s) = Head(t)
       /\ IsPrefix(Tail(s), Tail(t))

\* C32: for the same breakpoint event, starting from the same interpreted
\* set and with the same answers of the language server and the debug
\* adapter, a manager using the learning strategy sends the requests the
\* demand-driven one sent, in the same order, and ends with the same
\* interpreted set and the same outcome.
C32_LearningIsDemandDriven ==
    twin.phase = "second" =>
        /\ IsPrefix(twin.trace2, twin.trace)
        /\ calls[2].pc = "done" =>
              /\ twin.trace2 = twin.trace
              /\ interpretedModules = twin.interpreted
              /\ calls[2].caught = twin.caught

\* The learning manager has completed a call with two analyses and an
\* interpretation that added a module.
C32_LearningCallCompared ==
    /\ twin.phase = "second"
    /\ calls[2].pc = "done"
    /\ Len(twin.trace2) >= 3
    /\ interpretedModules # twin.interpreted0
    /\ twin.replayed > 0

\* At most one background request, of at most five modules, all of the
\* first transitive level of the analysis.
BackgroundBounded ==
    /\ Len(pset.background) <= 1
    /\ \A j \in DOMAIN pset.background :
         /\ Len(pset.background[j]) <= MaxPredictions
         /\ SeqToSet(pset.background[j]) \subseteq SeqToSet(pset.level1)

C34_ShouldReinterpretPerStrategy ==
    [][/\ lastOp'.op = "shouldReinterpret"
       /\ lastOp'.enabled =
            CASE currentStrategy = "demand-driven" ->
                    \E k \in DOMAIN changed' :
                        ExtractModuleFromFile(changed'[k])
                            \in interpretedModules
              [] currentStrategy = "predictive" -> changed' # <<>>
              [] currentStrategy = "learning" -> FALSE
              [] currentStrategy = NoStrategy -> FALSE
       /\ UNCHANGED <<mgrVars, interpretedModules, calls, lsScope,
                      adapterLog>>]_vars

\* The demand-driven strategy has answered true for two changed files, the
\* first of which holds no module.
C34_ReinterpretForSecondFile ==
    /\ lastOp.op = "shouldReinterpret"
    /\ lastOp.enabled
    /\ currentStrategy = "demand-driven"
    /\ Len(changed) = 2
    /\ ExtractModuleFromFile(changed[1]) = NoModule

\* The session was started with coordination enabled and no language client
\* was found for it (only initialize() gives the manager a client).
StartedWithoutClient ==
    session.state # "none" /\ session.enabled /\ ~languageClient

\* C35: when a coordination-enabled session starts and no language client
\* is found, the session's manager is registered and never initialized, and
\* no breakpoint change of the session sends a request.
C35_NoClientNoCoordination ==
    [][/\ (session.state = "none" /\ StartedWithoutClient') =>
             registered' /\ ~initialized'
       /\ StartedWithoutClient =>
             /\ ~initialized /\ ~initialized'
             /\ \A c \in CallIds :
                  /\ ~SendsRequest(c)
                  /\ calls'[c].sent = calls[c].sent
             /\ interpretedModules' = interpretedModules]_vars

\* A breakpoint change was handled by the registered manager of a session
\* that started without language client.
C35_EventWithoutClient ==
    /\ StartedWithoutClient
    /\ registered
    /\ \E c \in CallIds : calls[c].pc = "done"

\* The modules of the added and changed breakpoints of the last event.
EventModules ==
    {BreakpointModule(bp) :
        bp \in SeqToSet(fwd.added) \cup SeqToSet(fwd.changed)}

\* C36: an event with some breakpoint is forwarded to the session's manager
\* with exactly its added and changed breakpoints, in that order; a removed
\* breakpoint is never forwarded and no analysis is requested for it (an
\* event of removed breakpoints only sends nothing); an event with no
\* breakpoint, or for a session without manager, starts no call.
C36_AddedAndChangedForwarded ==
    [][/\ fwd' # fwd =>
            /\ EventDelivered <=>
                  (registered
                     /\ fwd'.added \o fwd'.removed \o fwd'.changed # <<>>)
            /\ EventDelivered <=> fwd'.call # 0
            /\ ~EventDelivered => calls' = calls
       /\ \A c \in CallIds :
            (fwd'.call = c /\ InFlight(c)') =>
                /\ calls'[c].bps = fwd'.added \o fwd'.changed
                /\ \A j \in DOMAIN RequestsSent(c) :
                     RequestsSent(c)[j].to = "languageServer" =>
                        SeqToSet(RequestsSent(c)[j].modules)
                            \subseteq EventModules'
       /\ \A c \in CallIds :
            (fwd' # fwd /\ fwd'.call = c
                /\ fwd'.added \o fwd'.changed = <<>>) =>
                /\ ~SendsRequest(c)
                /\ calls'[c].pc = "done" /\ calls'[c].sent = 0
                /\ interpretedModules' = interpretedModules]_vars

\* An event with an added, a removed and a changed breakpoint was forwarded
\* and the call it started has sent an interpretation request.
C36_MixedEventForwarded ==
    /\ fwd.added # <<>> /\ fwd.removed # <<>> /\ fwd.changed # <<>>
    /\ fwd.call # 0
    /\ BreakpointModule(fwd.removed[1]) \notin EventModules \cup {NoModule}
    /\ calls[fwd.call].sent > 0
    /\ InFlight(fwd.call)

\* Files whose name ends in .ex.
ElixirFiles == {"a.ex", "b.ex"}

\* A breakpoint that is not a source breakpoint, or not in an .ex file.
Ignorable(bp) == ~bp.source \/ bp.file \notin ElixirFiles

IgnorableIn(r) == {k \in DOMAIN r.bps : Ignorable(r.bps[k])}

\* C37: a breakpoint that is not a source breakpoint in an .ex file gets no
\* analysis request and never fails; the demand-driven loop passes over it
\* to the breakpoints after it, and the predictive plan holds every other
\* breakpoint of the batch.
C37_IgnoredBreakpoints ==
    \A c \in CallIds :
        InFlight(c) =>
            LET r == calls[c] IN
            /\ IgnorableIn(r) \cap r.failedIdx = {}
            /\ r.pc \in {"dd_analysis", "dd_interp", "dd_resp"} =>
                  /\ r.i \notin IgnorableIn(r)
                  /\ {k \in IgnorableIn(r) : k < r.i} \subseteq r.handled
            /\ r.pc = "pr_analysis" =>
                  /\ r.pending \cap IgnorableIn(r) = {}
                  /\ IgnorableIn(r) \subseteq r.handled
                  /\ SeqToSet(PlanInterpretationScope(r.bps))
                        = DOMAIN r.bps \ IgnorableIn(r)

\* A demand-driven call has passed over its first breakpoint, which is not
\* in an .ex file, and has sent an interpretation request for its second.
C37_PassedOverIgnored ==
    \E c \in CallIds :
        /\ calls[c].pc = "dd_interp"
        /\ calls[c].i = 2
        /\ Ignorable(calls[c].bps[1])
        /\ calls[c].bps[1].source
        /\ 1 \in calls[c].handled

====
